---- MODULE Spec2Model ----
(***************************************************************************)
(* The incremental synchronisation engine of the Hacker-News ingester:     *)
(* the sync_runs / items / users tables, the remote feed, and the request  *)
(* handlers that start, resume, pause and advance a sync run.              *)
(*                                                                         *)
(* Every request handler is a sequence of steps, one per access to the     *)
(* persistent store (each `await db...` of the source is a suspension      *)
(* point).  A worker is one in-flight request; pc[w] is its position and   *)
(* loc[w] its local variables.  Spec runs one request at a time; ConcSpec  *)
(* interleaves the steps of two requests on one run, StartSpec those of    *)
(* two start requests.                                                     *)
(***************************************************************************)
EXTENDS Integers, Sequences, FiniteSets, TLC

(* ------------------------------- bounds -------------------------------- *)
\* The highest ID the remote feed assigns within a behaviour.
MaxId == 3
\* The number of rows the sync_runs table may hold.
MaxRuns == 2
\* CHUNK_SIZE of POST /api/sync/chunk (1000 in the source), scaled down.
CHUNK_SIZE == 2
\* CHUNK_SIZE of the cron trigger (500 in the source), scaled down.
CRON_CHUNK_SIZE == 1
\* The safety margin of findItemIdAtTimestamp (1000 in the source), scaled.
SAFETY_MARGIN == 1
\* batchSize of the legacy POST /api/sync loop (100 in the source), scaled.
LEGACY_BATCH == 2
\* The legacy loop persists progress when itemsFetched % 500 = 0; scaled.
LEGACY_FLUSH == 2

(* ------------------------------ helpers -------------------------------- *)
Max(a, b) == IF a >= b THEN a ELSE b
Min(a, b) == IF a <= b THEN a ELSE b
SetMax(S) == CHOOSE x \in S : \A y \in S : y <= x
SetMin(S) == CHOOSE x \in S : \A y \in S : x <= y

\* Math.round(num / den * 100) for den > 0: JavaScript rounds halves up.
RoundPct(num, den) == (200 * num + den) \div (2 * den)

(* ------------------------------ the feed ------------------------------- *)
\* The author (`by`) of a feed record; NoUser is a record without author.
NoUser == "none"
AuthorOf(id) == IF id % 2 = 0 THEN "u1" ELSE NoUser
\* The creation time of a feed record: IDs are assigned in time order.
TimeOf(id) == id
\* The mutable part of a record (score, text, ...) as the feed returns it.
Scores == {0, 1}
\* A row of the items table that does not exist.
Absent == -1

(* ------------------------------- state --------------------------------- *)
VARIABLES
  remoteMax,       \* the feed's maxitem
  items,           \* items table: id -> stored score, or Absent
  users,           \* users table: the set of stored user ids
  runs,            \* sync_runs table: sequence of rows, the id is the index
  completedOrder,  \* ids of the runs with a completedAt, oldest first
  queue,           \* keyword extraction queue: sync run ids, in order
  pc,              \* position of each in-flight request
  loc,             \* local variables of each in-flight request
  resp,            \* the response of each worker's last finished request
  hn,              \* the call of the feed client (hn-api.ts) in progress
  kw               \* the keyword tables and the extraction in progress

\* The variables of the synchronisation engine.
syncVars == <<remoteMax, items, users, runs, completedOrder, queue, pc, loc,
              resp>>

vars == <<remoteMax, items, users, runs, completedOrder, queue, pc, loc, resp,
          hn, kw>>

Workers == {1, 2}
Ids == 1..MaxId

NoSync == [startMaxItem |-> 0, targetEndItem |-> 0, totalItems |-> 0,
           lastFetchedItem |-> 0, itemsFetched |-> 0, status |-> "none"]

NoLoc == [run |-> 0, sync |-> NoSync, kind |-> "none", start |-> 0,
          target |-> 0, total |-> 0, valid |-> {}, inserted |-> 0,
          added |-> 0, done |-> FALSE, weekAgo |-> 0, stopAt |-> 0,
          currentId |-> 0, fetched |-> 0, last |-> 0, stop |-> FALSE]

NoResp == [op |-> "none", success |-> TRUE, done |-> FALSE, syncRunId |-> 0,
           progress |-> 0, resumed |-> FALSE, error |-> "none",
           lastFetchedItem |-> 0, itemsFetched |-> 0]

\* The answer of a start, pause, cron or full-sync request.
Resp(op, success, done, id, progress, resumed) ==
  [NoResp EXCEPT !.op = op, !.success = success, !.done = done,
                 !.syncRunId = id, !.progress = progress, !.resumed = resumed]

\* A ChunkResult of POST /api/sync/chunk that reports a run.
ChunkResult(done, id, lastFetchedItem, itemsFetched, progress) ==
  [NoResp EXCEPT !.op = "chunk", !.done = done, !.syncRunId = id,
                 !.progress = progress, !.lastFetchedItem = lastFetchedItem,
                 !.itemsFetched = itemsFetched]

\* A ChunkResult that reports a failure.
ChunkError(error) ==
  [NoResp EXCEPT !.op = "chunk", !.success = FALSE, !.error = error]

RunIds == 1..Len(runs)
IsActive(r) == r.status \in {"running", "paused"}
ActiveRuns == {i \in RunIds : IsActive(runs[i])}

\* max(items.id), or 0 on an empty table (latestItem?.maxId ?? 0).
StoredIds == {i \in Ids : items[i] # Absent}
\* Fault: the ID above the highest stored one.
LocalMaxItemNext == IF StoredIds = {} THEN 0 ELSE SetMax(StoredIds) + 1

LocalMaxItem == IF StoredIds = {} THEN 0 ELSE SetMax(StoredIds)

\* No call of the feed client is in progress.
NoCall == [op |-> "none"]
\* No keyword extraction is in progress and the keyword tables are empty.
NoExtraction == [op |-> "none"]

Init ==
  /\ remoteMax \in 1..MaxId
  /\ items = [i \in Ids |-> Absent]
  /\ users = {}
  /\ runs = <<>>
  /\ completedOrder = <<>>
  /\ queue = <<>>
  /\ pc = [w \in Workers |-> "idle"]
  /\ loc = [w \in Workers |-> NoLoc]
  /\ resp = [w \in Workers |-> NoResp]
  /\ hn = NoCall
  /\ kw = NoExtraction

(* --------------------------- sync-utils.ts ----------------------------- *)
\* Fault: the lookup ignores paused runs.
findExistingRunningOnly ==
  LET running == {i \in RunIds : runs[i].status = "running"} IN
  IF running = {} THEN 0 ELSE SetMax(running)

\* The most recently started run that is running or paused, or 0.
findExistingRunningSyncOrPaused ==
  IF ActiveRuns = {} THEN 0 ELSE SetMax(ActiveRuns)

\* Fault: the cursor of a new run starts one above startMaxItem.
createSyncRunCursorOff(startMaxItem, targetEndItem, totalItems) ==
  Append(runs, [startMaxItem |-> startMaxItem, targetEndItem |-> targetEndItem,
                totalItems |-> totalItems, lastFetchedItem |-> startMaxItem + 1,
                itemsFetched |-> 0, status |-> "running"])

\* The sync_runs table with a new row appended.
createSyncRun(startMaxItem, targetEndItem, totalItems) ==
  Append(runs, [startMaxItem |-> startMaxItem, targetEndItem |-> targetEndItem,
                totalItems |-> totalItems, lastFetchedItem |-> startMaxItem,
                itemsFetched |-> 0, status |-> "running"])

\* Fault: resuming a run restarts it from startMaxItem.
resumeSyncRunRestart(id) ==
  [runs EXCEPT ![id].status = "running",
               ![id].lastFetchedItem = runs[id].startMaxItem]

\* The sync_runs table with the status of run id set to running.
resumeSyncRun(id) == [runs EXCEPT ![id].status = "running"]

\* A request returns: its locals are dropped and its response recorded.
Return(w, r) ==
  /\ pc' = [pc EXCEPT ![w] = "idle"]
  /\ loc' = [loc EXCEPT ![w] = NoLoc]
  /\ resp' = [resp EXCEPT ![w] = r]

\* A request goes on to its next step; it has no response yet.
Goto(w, label, l) ==
  /\ pc' = [pc EXCEPT ![w] = label]
  /\ loc' = [loc EXCEPT ![w] = l]
  /\ resp' = [resp EXCEPT ![w] = NoResp]

(* ------------------------------ hn-api.ts ------------------------------ *)
\* The binary search of findItemIdAtTimestamp over [low, high]; `gone` is
\* the set of IDs whose fetch returns no record or no timestamp.
RECURSIVE Bisect(_, _, _, _, _)
Bisect(targetTimestamp, low, high, bestMatch, gone) ==
  IF low > high THEN bestMatch
  ELSE LET mid == (low + high) \div 2 IN
       IF mid \in gone
       THEN Bisect(targetTimestamp, low, mid - 1, bestMatch, gone)
       ELSE IF TimeOf(mid) <= targetTimestamp
            THEN Bisect(targetTimestamp, mid + 1, high, mid, gone)
            ELSE Bisect(targetTimestamp, low, mid - 1, bestMatch, gone)

findItemIdAtTimestamp(targetTimestamp, maxItem, minItem, gone) ==
  Max(minItem, Bisect(targetTimestamp, minItem, maxItem, minItem, gone)
               - SAFETY_MARGIN)

\* The feed assigns a new ID.
FeedGrow ==
  /\ remoteMax < MaxId
  /\ remoteMax' = remoteMax + 1
  /\ UNCHANGED <<items, users, runs, completedOrder, queue, pc, loc, resp,
                 hn, kw>>

(* --------------------- POST /api/sync/incremental ---------------------- *)
IncrementalFind(w) ==
  /\ pc[w] = "idle"
  /\ LET existing == findExistingRunningSyncOrPaused IN
     IF existing # 0
     THEN Goto(w, "inc_resume", [NoLoc EXCEPT !.run = existing])
     ELSE Goto(w, "inc_latest", NoLoc)
  /\ UNCHANGED <<remoteMax, items, users, runs, completedOrder, queue, hn, kw>>

IncrementalResume(w) ==
  /\ pc[w] = "inc_resume"
  /\ runs' = resumeSyncRun(loc[w].run)
  /\ Return(w, Resp("incremental", TRUE, FALSE, loc[w].run, 0, TRUE))
  /\ UNCHANGED <<remoteMax, items, users, completedOrder, queue, hn, kw>>

IncrementalLatest(w) ==
  /\ pc[w] = "inc_latest"
  /\ LET targetEndItem == LocalMaxItem
         startMaxItem == remoteMax
         totalItems == Max(0, startMaxItem - targetEndItem) IN
     IF totalItems = 0
     THEN Return(w, Resp("incremental", TRUE, FALSE, 0, 0, FALSE))
     ELSE Goto(w, "inc_create", [NoLoc EXCEPT !.start = startMaxItem,
                                 !.target = targetEndItem, !.total = totalItems])
  /\ UNCHANGED <<remoteMax, items, users, runs, completedOrder, queue, hn, kw>>

IncrementalCreate(w) ==
  /\ pc[w] = "inc_create"
  /\ Len(runs) < MaxRuns
  /\ runs' = createSyncRun(loc[w].start, loc[w].target, loc[w].total)
  /\ Return(w, Resp("incremental", TRUE, FALSE, Len(runs) + 1, 0, FALSE))
  /\ UNCHANGED <<remoteMax, items, users, completedOrder, queue, hn, kw>>

(* ----------------------- POST /api/sync/initial ------------------------ *)
InitialCount(w) ==
  /\ pc[w] = "idle"
  /\ IF Cardinality(StoredIds) > 0
     THEN Return(w, Resp("initial", FALSE, FALSE, 0, 0, FALSE))
     ELSE Goto(w, "init_find", NoLoc)
  /\ UNCHANGED <<remoteMax, items, users, runs, completedOrder, queue, hn, kw>>

InitialFind(w) ==
  /\ pc[w] = "init_find"
  /\ LET existing == findExistingRunningSyncOrPaused IN
     IF existing # 0
     THEN Goto(w, "init_resume", [NoLoc EXCEPT !.run = existing])
     ELSE Goto(w, "init_create", NoLoc)
  /\ UNCHANGED <<remoteMax, items, users, runs, completedOrder, queue, hn, kw>>

InitialResume(w) ==
  /\ pc[w] = "init_resume"
  /\ runs' = resumeSyncRun(loc[w].run)
  /\ Return(w, Resp("initial", TRUE, FALSE, loc[w].run, 0, TRUE))
  /\ UNCHANGED <<remoteMax, items, users, completedOrder, queue, hn, kw>>

InitialCreate(w) ==
  /\ pc[w] = "init_create"
  /\ Len(runs) < MaxRuns
  /\ \E oneWeekAgo \in 0..MaxId, gone \in SUBSET (1..remoteMax) :
       LET targetEndItem ==
             findItemIdAtTimestamp(oneWeekAgo, remoteMax, 1, gone)
           totalItems == Max(0, remoteMax - targetEndItem) IN
       runs' = createSyncRun(remoteMax, targetEndItem, totalItems)
  /\ Return(w, Resp("initial", TRUE, FALSE, Len(runs) + 1, 0, FALSE))
  /\ UNCHANGED <<remoteMax, items, users, completedOrder, queue, hn, kw>>

(* ------------------------ the completedAt column ----------------------- *)
RECURSIVE Without(_, _)
Without(seq, id) ==
  IF seq = <<>> THEN <<>>
  ELSE IF Head(seq) = id THEN Without(Tail(seq), id)
       ELSE <<Head(seq)>> \o Without(Tail(seq), id)

\* completedAt: new Date() on run id.
StampCompleted(id) == Append(Without(completedOrder, id), id)
\* completedAt: null on run id.
ClearCompleted(id) == Without(completedOrder, id)

(* --------------------------- batch-utils.ts ---------------------------- *)
\* The usernames referenced by a set of valid records <<id, score>>.
Usernames(valid) == {AuthorOf(v[1]) : v \in valid} \ {NoUser}

\* batchInsertUsers: the users table after the users among `found` (those
\* the feed returned) that are referenced and not yet stored are inserted.
batchInsertUsers(usernames, found) ==
  users \cup ((usernames \ users) \cap found)

\* The foreign key items.by -> users.id holds for every record to insert.
AuthorsStored(valid) == Usernames(valid) \subseteq users

\* Fault: the insert overwrites the rows that exist (an upsert).
InsertOrUpdate(valid) ==
  [i \in Ids |->
     IF \E v \in valid : v[1] = i
     THEN (CHOOSE v \in valid : v[1] = i)[2]
     ELSE items[i]]

\* db.insert(items).values(...).onConflictDoNothing()
InsertOrIgnore(valid) ==
  [i \in Ids |->
     IF items[i] = Absent /\ \E v \in valid : v[1] = i
     THEN (CHOOSE v \in valid : v[1] = i)[2]
     ELSE items[i]]

\* The rows an insert of `valid` adds to the items table.
RowsAdded(valid) == Cardinality({v \in valid : items[v[1]] = Absent})

\* The value batchInsertItems returns: itemsToInsert.length.
InsertedCount(valid) == Cardinality(valid)

\* The outcomes of fetching a window of IDs and filtering the results: the
\* sets of valid records <<id, score>>, at most one per requested ID that
\* the feed holds.  IDs the feed does not hold, records the feed fails to
\* return and records without type or time are dropped.
FetchOutcomes(ids) ==
  UNION {{{<<i, sc[i]>> : i \in S} : sc \in [S -> Scores]} :
         S \in SUBSET (ids \cap (1..remoteMax))}

(* ------------------- processChunk: chunk and cron routes --------------- *)
ChunkSize(kind) == IF kind = "cron" THEN CRON_CHUNK_SIZE ELSE CHUNK_SIZE

\* Fault: the window ignores targetEndItem.
IdsToFetchNoFloor(sync, size) ==
  LET startId == sync.lastFetchedItem IN
  {id \in (startId - size)..(startId - 1) : startId - id <= size}

\* Fault: the window starts at the cursor itself.
IdsToFetchFromCursor(sync, size) ==
  LET startId == sync.lastFetchedItem
      endId == Max(sync.targetEndItem, startId - size) IN
  {id \in endId..startId : startId - id < size}

\* The IDs one chunk requests: from startId - 1 down to endId, at most size.
IdsToFetch(sync, size) ==
  LET startId == sync.lastFetchedItem
      endId == Max(sync.targetEndItem, startId - size) IN
  {id \in endId..(startId - 1) : startId - id <= size}

\* The progress POST /api/sync/chunk reports after a chunk: Math.round of
\* the ratio, then Math.min(progress, 100).  A zero totalItems makes the
\* ratio Infinity (reported as 100) or NaN / -Infinity (reported as null,
\* written -1 here).
ChunkProgress(sync, newLastFetched) ==
  LET num == sync.startMaxItem - newLastFetched IN
  IF sync.totalItems = 0
  THEN (IF num > 0 THEN 100 ELSE 0 - 1)
  ELSE Min(RoundPct(num, sync.totalItems), 100)

\* A chunk call ends: the route answers, the cron trigger loops or fails.
ChunkEnd(w, r) ==
  IF loc[w].kind = "route" THEN Return(w, r)
  ELSE IF r.success
       THEN Goto(w, "cron_loop", [NoLoc EXCEPT !.run = loc[w].run,
                                  !.sync = loc[w].sync, !.kind = "cron",
                                  !.done = r.done])
       ELSE Return(w, [Resp("cron", FALSE, FALSE, 0, 0, FALSE)
                       EXCEPT !.error = r.error])

\* Fault: a completed run is processed like a running one.
ChunkPostNoCompletedCheck(w) ==
  /\ pc[w] = "idle"
  /\ \E id \in 1..Len(runs) :
       Goto(w, "chunk_plan",
            [NoLoc EXCEPT !.run = id, !.sync = runs[id], !.kind = "route"])
  /\ UNCHANGED <<remoteMax, items, users, runs, completedOrder, queue, hn, kw>>

\* POST /api/sync/chunk?syncRunId=id: load the run.
ChunkPost(w) ==
  /\ pc[w] = "idle"
  /\ \E id \in 0..MaxRuns :
       IF id = 0
       THEN Return(w, ChunkError("syncRunId is required"))
       ELSE IF id > Len(runs)
       THEN Return(w, ChunkError("Sync run not found"))
       ELSE IF runs[id].status = "completed"
       THEN Return(w, ChunkResult(TRUE, id, runs[id].lastFetchedItem,
                                  runs[id].itemsFetched, 100))
       ELSE Goto(w, IF runs[id].status = "paused" THEN "chunk_resume"
                    ELSE "chunk_plan",
                 [NoLoc EXCEPT !.run = id, !.sync = runs[id], !.kind = "route"])
  /\ UNCHANGED <<remoteMax, items, users, runs, completedOrder, queue, hn, kw>>

\* Fault: a paused run is not set to running.
ChunkResumeSkipped(w) ==
  /\ pc[w] = "chunk_resume"
  /\ Goto(w, "chunk_plan", loc[w])
  /\ UNCHANGED <<remoteMax, items, users, runs, completedOrder, queue, hn, kw>>

\* Update status to running if it was paused.
ChunkResume(w) ==
  /\ pc[w] = "chunk_resume"
  /\ runs' = [runs EXCEPT ![loc[w].run].status = "running"]
  /\ Goto(w, "chunk_plan", loc[w])
  /\ UNCHANGED <<remoteMax, items, users, completedOrder, queue, hn, kw>>

\* The window is empty: mark the run completed.
ChunkComplete(w) ==
  /\ pc[w] = "chunk_plan"
  /\ IdsToFetch(loc[w].sync, ChunkSize(loc[w].kind)) = {}
  /\ runs' = [runs EXCEPT ![loc[w].run].status = "completed"]
  /\ completedOrder' = StampCompleted(loc[w].run)
  /\ ChunkEnd(w, ChunkResult(TRUE, loc[w].run,
                             loc[w].sync.lastFetchedItem,
                             loc[w].sync.itemsFetched, 100))
  /\ UNCHANGED <<remoteMax, items, users, queue, hn, kw>>

\* Fetch the window, filter it, and store the authors (batchInsertUsers).
ChunkFetch(w) ==
  /\ pc[w] = "chunk_plan"
  /\ LET ids == IdsToFetch(loc[w].sync, ChunkSize(loc[w].kind)) IN
     /\ ids # {}
     /\ \E valid \in FetchOutcomes(ids), found \in SUBSET {"u1"} :
          IF valid = {}
          THEN /\ Goto(w, "chunk_commit", [loc[w] EXCEPT !.valid = {},
                                           !.inserted = 0, !.added = 0])
               /\ users' = users
          ELSE /\ Goto(w, "chunk_insert", [loc[w] EXCEPT !.valid = valid])
               /\ users' = batchInsertUsers(Usernames(valid), found)
  /\ UNCHANGED <<remoteMax, items, runs, completedOrder, queue, hn, kw>>

\* db.insert(items) succeeds: rows that exist are left alone.
ChunkInsert(w) ==
  /\ pc[w] = "chunk_insert"
  /\ AuthorsStored(loc[w].valid)
  /\ items' = InsertOrIgnore(loc[w].valid)
  /\ Goto(w, "chunk_commit",
          [loc[w] EXCEPT !.inserted = InsertedCount(loc[w].valid),
                         !.added = RowsAdded(loc[w].valid)])
  /\ UNCHANGED <<remoteMax, users, runs, completedOrder, queue, hn, kw>>

\* db.insert(items) throws (an author without a row in users, or the store
\* fails): the handler's catch answers with a failure.
ChunkInsertThrows(w) ==
  /\ pc[w] = "chunk_insert"
  /\ ChunkEnd(w, ChunkError("threw"))
  /\ UNCHANGED <<remoteMax, items, users, runs, completedOrder, queue, hn, kw>>

\* Fault: the run is done only when the cursor is below targetEndItem.
CommittedRunStrict(row, sync, ids, inserted) ==
  LET newLastFetched == SetMin(ids)
      isDone == newLastFetched < sync.targetEndItem IN
  [row EXCEPT !.lastFetchedItem = newLastFetched,
              !.itemsFetched = sync.itemsFetched + inserted,
              !.status = IF isDone THEN "completed" ELSE "running"]

\* Fault: the cursor moves only when a record was inserted.
CommittedRunStalled(row, sync, ids, inserted) ==
  LET newLastFetched == IF inserted = 0 THEN sync.lastFetchedItem
                        ELSE SetMin(ids)
      isDone == newLastFetched <= sync.targetEndItem IN
  [row EXCEPT !.lastFetchedItem = newLastFetched,
              !.itemsFetched = sync.itemsFetched + inserted,
              !.status = IF isDone THEN "completed" ELSE "running"]

\* The row POST /api/sync/chunk writes after a chunk.
CommittedRun(row, sync, ids, inserted) ==
  LET newLastFetched == SetMin(ids)
      isDone == newLastFetched <= sync.targetEndItem IN
  [row EXCEPT !.lastFetchedItem = newLastFetched,
              !.itemsFetched = sync.itemsFetched + inserted,
              !.status = IF isDone THEN "completed" ELSE "running"]

\* Update sync run progress and answer.
ChunkCommit(w) ==
  /\ pc[w] = "chunk_commit"
  /\ LET sync == loc[w].sync
         id == loc[w].run
         ids == IdsToFetch(sync, ChunkSize(loc[w].kind))
         row == CommittedRun(runs[id], sync, ids, loc[w].inserted)
         isDone == row.status = "completed" IN
     /\ runs' = [runs EXCEPT ![id] = row]
     /\ completedOrder' = IF isDone THEN StampCompleted(id)
                          ELSE ClearCompleted(id)
     /\ ChunkEnd(w, ChunkResult(isDone, id, row.lastFetchedItem,
                                row.itemsFetched,
                                ChunkProgress(sync, row.lastFetchedItem)))
  /\ UNCHANGED <<remoteMax, items, users, queue, hn, kw>>

(* -------------------------- GET /api/cron/sync ------------------------- *)
CronFind(w) ==
  /\ pc[w] = "idle"
  /\ LET existing == findExistingRunningSyncOrPaused IN
     IF existing # 0
     THEN Goto(w, "cron_resume", [NoLoc EXCEPT !.run = existing])
     ELSE Goto(w, "cron_latest", NoLoc)
  /\ UNCHANGED <<remoteMax, items, users, runs, completedOrder, queue, hn, kw>>

CronResume(w) ==
  /\ pc[w] = "cron_resume"
  /\ runs' = [runs EXCEPT ![loc[w].run].status = "running"]
  /\ Goto(w, "cron_loop", [NoLoc EXCEPT !.run = loc[w].run, !.kind = "cron"])
  /\ UNCHANGED <<remoteMax, items, users, completedOrder, queue, hn, kw>>

CronLatest(w) ==
  /\ pc[w] = "cron_latest"
  /\ LET targetEndItem == LocalMaxItem
         totalItems == Max(0, remoteMax - targetEndItem) IN
     IF totalItems = 0
     THEN Return(w, Resp("cron", TRUE, FALSE, 0, 0, FALSE))
     ELSE Goto(w, "cron_create", [NoLoc EXCEPT !.start = remoteMax,
                                  !.target = targetEndItem, !.total = totalItems])
  /\ UNCHANGED <<remoteMax, items, users, runs, completedOrder, queue, hn, kw>>

CronCreate(w) ==
  /\ pc[w] = "cron_create"
  /\ Len(runs) < MaxRuns
  /\ runs' = createSyncRun(loc[w].start, loc[w].target, loc[w].total)
  /\ Goto(w, "cron_loop", [NoLoc EXCEPT !.run = Len(runs) + 1, !.kind = "cron"])
  /\ UNCHANGED <<remoteMax, items, users, completedOrder, queue, hn, kw>>

\* while (!done && elapsed < MAX_EXECUTION_MS): processChunk loads the run.
CronChunk(w) ==
  /\ pc[w] = "cron_loop"
  /\ ~loc[w].done
  /\ LET id == loc[w].run IN
     IF runs[id].status = "completed"
     THEN Goto(w, "cron_loop", [loc[w] EXCEPT !.done = TRUE])
     ELSE Goto(w, "chunk_plan", [loc[w] EXCEPT !.sync = runs[id]])
  /\ UNCHANGED <<remoteMax, items, users, runs, completedOrder, queue, hn, kw>>

\* The time budget is used up before the run is done.
CronTimeout(w) ==
  /\ pc[w] = "cron_loop"
  /\ ~loc[w].done
  /\ Return(w, Resp("cron", TRUE, FALSE, loc[w].run, 0, FALSE))
  /\ UNCHANGED <<remoteMax, items, users, runs, completedOrder, queue, hn, kw>>

\* The run is done: createQueueRecord(syncRunId), then answer.
CronQueue(w) ==
  /\ pc[w] = "cron_loop"
  /\ loc[w].done
  /\ queue' = Append(queue, loc[w].run)
  /\ Return(w, Resp("cron", TRUE, TRUE, loc[w].run, 0, FALSE))
  /\ UNCHANGED <<remoteMax, items, users, runs, completedOrder, hn, kw>>

(* -------------------------- DELETE /api/sync --------------------------- *)
PauseFind(w) ==
  /\ pc[w] = "idle"
  /\ IF \E i \in RunIds : runs[i].status = "running"
     THEN \E i \in RunIds :
            /\ runs[i].status = "running"
            /\ Goto(w, "pause_write", [NoLoc EXCEPT !.run = i])
     ELSE Return(w, Resp("pause", FALSE, FALSE, 0, 0, FALSE))
  /\ UNCHANGED <<remoteMax, items, users, runs, completedOrder, queue, hn, kw>>

PauseWrite(w) ==
  /\ pc[w] = "pause_write"
  /\ runs' = [runs EXCEPT ![loc[w].run].status = "paused"]
  /\ Return(w, Resp("pause", TRUE, FALSE, loc[w].run, 0, FALSE))
  /\ UNCHANGED <<remoteMax, items, users, completedOrder, queue, hn, kw>>

(* ------------------- POST /api/sync (the full sync) -------------------- *)
\* startMaxItem of the run completed last, or 0 when no run is completed.
StopAtItem ==
  LET done == {k \in 1..Len(completedOrder) :
                 runs[completedOrder[k]].status = "completed"} IN
  IF done = {} THEN 0 ELSE runs[completedOrder[SetMax(done)]].startMaxItem

\* Create a run unconditionally, with the default targetEndItem and
\* totalItems of the schema (0).
LegacyStart(w) ==
  /\ pc[w] = "idle"
  /\ Len(runs) < MaxRuns
  /\ \E oneWeekAgo \in 0..MaxId :
       Goto(w, "legacy_loop",
            [NoLoc EXCEPT !.run = Len(runs) + 1, !.kind = "legacy",
                          !.weekAgo = oneWeekAgo, !.stopAt = StopAtItem,
                          !.currentId = remoteMax, !.fetched = 0,
                          !.last = remoteMax])
  /\ runs' = Append(runs, [startMaxItem |-> remoteMax, targetEndItem |-> 0,
                           totalItems |-> 0, lastFetchedItem |-> remoteMax,
                           itemsFetched |-> 0, status |-> "running"])
  /\ UNCHANGED <<remoteMax, items, users, completedOrder, queue, hn, kw>>

\* The IDs one iteration of the loop fetches, walking down from currentId.
LegacyBatchIds(currentId, stopAt) ==
  {id \in (currentId - LEGACY_BATCH + 1)..currentId :
     id > 0 /\ ~(stopAt > 0 /\ id <= stopAt)}

\* currentId after the fetches of one iteration.
LegacyNextId(currentId, stopAt) ==
  IF stopAt > 0 /\ Max(1, currentId - LEGACY_BATCH + 1) <= stopAt THEN 0
  ELSE Max(0, currentId - LEGACY_BATCH)

\* One iteration: fetch a batch, stop at a record older than a week, insert
\* the others (insertItem and ensureUserExists), persist progress when
\* itemsFetched is a multiple of the flush period.
LegacyBatchStep(w) ==
  /\ pc[w] = "legacy_loop"
  /\ loc[w].currentId > 0
  /\ LET l == loc[w]
         ids == LegacyBatchIds(l.currentId, l.stopAt) IN
     \E got \in FetchOutcomes(ids), found \in SUBSET {"u1"} :
       LET fresh == {v \in got : ~(TimeOf(v[1]) < l.weekAgo)}
           shouldStop == fresh # got
           usersNow == batchInsertUsers(Usernames(fresh), found)
           inserted == {v \in fresh : AuthorOf(v[1]) = NoUser
                                      \/ AuthorOf(v[1]) \in usersNow}
           itemsFetched == l.fetched + Cardinality(inserted)
           lastFetchedItem == IF inserted = {} THEN l.last
                              ELSE SetMin({v[1] : v \in inserted})
           nextId == LegacyNextId(l.currentId, l.stopAt) IN
       /\ users' = usersNow
       /\ items' = InsertOrIgnore(inserted)
       /\ runs' = IF itemsFetched % LEGACY_FLUSH = 0
                  THEN [runs EXCEPT ![l.run].lastFetchedItem = lastFetchedItem,
                                    ![l.run].itemsFetched = itemsFetched]
                  ELSE runs
       /\ Goto(w, IF shouldStop \/ nextId = 0 THEN "legacy_finish"
                  ELSE "legacy_loop",
               [l EXCEPT !.currentId = nextId, !.fetched = itemsFetched,
                         !.last = lastFetchedItem])
  /\ UNCHANGED <<remoteMax, completedOrder, queue, hn, kw>>

\* Mark sync as completed.
LegacyFinish(w) ==
  /\ pc[w] = "legacy_finish"
  /\ runs' = [runs EXCEPT ![loc[w].run].lastFetchedItem = loc[w].last,
                          ![loc[w].run].itemsFetched = loc[w].fetched,
                          ![loc[w].run].status = "completed"]
  /\ completedOrder' = StampCompleted(loc[w].run)
  /\ Return(w, Resp("legacy", TRUE, TRUE, loc[w].run, 0, FALSE))
  /\ UNCHANGED <<remoteMax, items, users, queue, hn, kw>>

(* --------------------- progress of the status queries ------------------ *)
\* GET /api/sync (run history) and GET /api/sync/stream (progress events).
StatusProgress(run) ==
  IF run.totalItems > 0
  THEN RoundPct(run.startMaxItem - run.lastFetchedItem, run.totalItems)
  ELSE 0

(* --------------------------- specifications ---------------------------- *)
Start(w) ==
  \/ IncrementalFind(w) \/ IncrementalResume(w) \/ IncrementalLatest(w)
  \/ IncrementalCreate(w)
  \/ InitialCount(w) \/ InitialFind(w) \/ InitialResume(w) \/ InitialCreate(w)

Chunk(w) ==
  \/ ChunkPost(w) \/ ChunkResume(w) \/ ChunkComplete(w) \/ ChunkFetch(w)
  \/ ChunkInsert(w) \/ ChunkInsertThrows(w) \/ ChunkCommit(w)

Cron(w) ==
  \/ CronFind(w) \/ CronResume(w) \/ CronLatest(w) \/ CronCreate(w)
  \/ CronChunk(w) \/ CronTimeout(w) \/ CronQueue(w)

Pause(w) == PauseFind(w) \/ PauseWrite(w)

Legacy(w) == LegacyStart(w) \/ LegacyBatchStep(w) \/ LegacyFinish(w)

Step(w) == Start(w) \/ Chunk(w) \/ Cron(w) \/ Pause(w) \/ Legacy(w)

\* One request at a time: every handler runs to its end before the next.
Next == FeedGrow \/ Step(1)

Spec == Init /\ [][Next]_vars

\* Two requests in flight on one run, interleaved at every access to the
\* store: starts, chunks and pauses.
ConcNext ==
  /\ \E w \in Workers :
       \/ IncrementalFind(w) \/ IncrementalResume(w) \/ IncrementalLatest(w)
       \/ IncrementalCreate(w) \/ Chunk(w) \/ Pause(w)
  /\ Len(runs') <= 1

ConcSpec == Init /\ [][ConcNext]_vars

\* Two start requests in flight, interleaved at every access to the store.
StartNext == \E w \in Workers : Start(w) \/ Legacy(w)

StartSpec == Init /\ [][StartNext]_vars

(* ------------- processChunk of the cron trigger at full scale ---------- *)
\* CHUNK_SIZE of the cron trigger as the source has it.
CRON_CHUNK_FULL == 500

\* createSyncRun(1000, 400, 600): a run of 600 IDs.
ScenarioStart ==
  /\ runs = <<>>
  /\ pc[1] = "idle"
  /\ runs' = createSyncRun(1000, 400, 600)
  /\ Return(1, Resp("incremental", TRUE, FALSE, 1, 0, FALSE))
  /\ UNCHANGED <<remoteMax, items, users, completedOrder, queue, hn, kw>>

\* One processChunk call on run 1, from its load to its commit, no other
\* request in flight.  Only the number of records the insert is handed is
\* kept of the fetch: any number up to the size of the window.
ScenarioChunk ==
  /\ runs # <<>>
  /\ pc[1] = "idle"
  /\ LET sync == runs[1]
         ids == IdsToFetch(sync, CRON_CHUNK_FULL) IN
     IF sync.status = "completed"
     THEN /\ Return(1, ChunkResult(TRUE, 1, sync.lastFetchedItem,
                                   sync.itemsFetched, 100))
          /\ UNCHANGED <<runs, completedOrder>>
     ELSE IF ids = {}
     THEN /\ runs' = [runs EXCEPT ![1].status = "completed"]
          /\ completedOrder' = StampCompleted(1)
          /\ Return(1, ChunkResult(TRUE, 1, sync.lastFetchedItem,
                                   sync.itemsFetched, 100))
     ELSE \E insertedCount \in 0..Cardinality(ids) :
            LET row == CommittedRun(sync, sync, ids, insertedCount)
                isDone == row.status = "completed" IN
            /\ runs' = [runs EXCEPT ![1] = row]
            /\ completedOrder' = IF isDone THEN StampCompleted(1)
                                 ELSE ClearCompleted(1)
            /\ Return(1, ChunkResult(isDone, 1, row.lastFetchedItem,
                                     row.itemsFetched,
                                     ChunkProgress(sync, row.lastFetchedItem)))
  /\ UNCHANGED <<remoteMax, items, users, queue, hn, kw>>

ScenarioNext == ScenarioStart \/ ScenarioChunk

ScenarioSpec == Init /\ [][ScenarioNext]_vars

\* Requests of two clients, one at a time: no two requests overlap.
SerialNext ==
  \E w \in Workers :
    /\ \A v \in Workers \ {w} : pc[v] = "idle"
    /\ Start(w) \/ Chunk(w) \/ Pause(w)

SerialSpec == Init /\ [][SerialNext]_vars

\* The cron trigger and a client that calls POST /api/sync/chunk and
\* DELETE /api/sync work on one run, interleaved at every access to the
\* store.
CronRaceNext ==
  /\ Cron(1) \/ Chunk(2) \/ Pause(2)
  /\ Len(runs') <= 1

CronRaceSpec == Init /\ [][CronRaceNext]_vars

\* The most queue records written in a behaviour of CronOverlapSpec.
MaxQueue == 3

\* Invocations of the cron trigger, two at a time, work on one run,
\* interleaved at every access to the store.
CronOverlapNext ==
  /\ \E w \in Workers :
       \/ Cron(w)
       \/ ChunkComplete(w) \/ ChunkFetch(w) \/ ChunkInsert(w)
       \/ ChunkInsertThrows(w) \/ ChunkCommit(w)
  /\ Len(runs') <= 1
  /\ Len(queue') <= MaxQueue

CronOverlapSpec == Init /\ [][CronOverlapNext]_vars

(* ------------------- hn-api.ts: calls of the feed client --------------- *)
\* The synchronisation engine at rest: empty tables, no request in flight.
SyncAtRest ==
  /\ remoteMax = 1
  /\ items = [i \in Ids |-> Absent]
  /\ users = {}
  /\ runs = <<>>
  /\ completedOrder = <<>>
  /\ queue = <<>>
  /\ pc = [w \in Workers |-> "idle"]
  /\ loc = [w \in Workers |-> NoLoc]
  /\ resp = [w \in Workers |-> NoResp]

\* The highest ID of the feeds findItemIdAtTimestamp is applied to.
LocateMaxItem == 5
\* The timestamps of those feeds are 1..LocateMaxTime.
LocateMaxTime == 3
\* The safety margin of findItemIdAtTimestamp (1000 in the source), scaled
\* so that a feed of LocateMaxItem IDs has room on both sides of it.
LocateMargin == 2
\* The time of an ID whose fetch returns null or a record without time.
NoTime == 0

\* The feeds: a time, or NoTime, for every ID.
Feeds == [1..LocateMaxItem -> {NoTime} \cup (1..LocateMaxTime)]

\* The while loop of findItemIdAtTimestamp on a feed given as a function.
RECURSIVE BisectFeed(_, _, _, _, _)
BisectFeed(feed, targetTimestamp, low, high, bestMatch) ==
  IF low > high THEN bestMatch
  ELSE LET mid == (low + high) \div 2 IN
       IF feed[mid] = NoTime
       THEN BisectFeed(feed, targetTimestamp, low, mid - 1, bestMatch)
       ELSE IF feed[mid] <= targetTimestamp
            THEN BisectFeed(feed, targetTimestamp, mid + 1, high, mid)
            ELSE BisectFeed(feed, targetTimestamp, low, mid - 1, bestMatch)

\* Fault: the best match is returned without the safety margin.
LocateWithoutMargin(feed, targetTimestamp, maxItem, minItem, margin) ==
  Max(minItem, BisectFeed(feed, targetTimestamp, minItem, maxItem, minItem))

\* findItemIdAtTimestamp(targetTimestamp, maxItem, minItem) on a feed given
\* as a function, with the margin the source fixes at 1000.
LocateInFeed(feed, targetTimestamp, maxItem, minItem, margin) ==
  Max(minItem,
      BisectFeed(feed, targetTimestamp, minItem, maxItem, minItem) - margin)

LocateInit ==
  /\ SyncAtRest
  /\ kw = NoExtraction
  /\ \E feed \in Feeds, targetTimestamp \in 0..LocateMaxTime :
       hn = [op |-> "locate", feed |-> feed,
             targetTimestamp |-> targetTimestamp, done |-> FALSE, result |-> 0]

\* findItemIdAtTimestamp(targetTimestamp, maxItem) runs to its end.
Locate ==
  /\ hn.op = "locate" /\ ~hn.done
  /\ hn' = [hn EXCEPT !.done = TRUE,
                      !.result = LocateInFeed(hn.feed, hn.targetTimestamp,
                                              LocateMaxItem, 1, LocateMargin)]
  /\ UNCHANGED <<syncVars, kw>>

LocateNext == Locate

LocateSpec == LocateInit /\ [][LocateNext]_vars

(* ------------------------ hn-api.ts: fetchHNItem ----------------------- *)
\* The IDs fetchHNItem and fetchItemsBatch are called with.
FetchMaxId == 4
\* null: no record.
Null == [null |-> TRUE]

\* What the remote request of one fetch does: the response is OK and its
\* body parses, the response is not OK, fetch() rejects, or the body of an
\* OK response does not parse (response.json() rejects).
Outcomes == {"ok", "status", "network", "unparseable"}

\* The bodies that parse: a record of the ID asked for, or null (the feed
\* answers null for an ID it does not hold).
Bodies(id) ==
  {Null} \cup {[id |-> id, time |-> t, score |-> sc] :
                 t \in {NoTime} \cup (1..LocateMaxTime), sc \in Scores}

\* The body of the try block: a value returned, or an exception thrown.
TryFetch(outcome, body) ==
  CASE outcome = "network" -> [threw |-> TRUE, value |-> Null]
    [] outcome = "status" -> [threw |-> FALSE, value |-> Null]
    [] outcome = "unparseable" -> [threw |-> TRUE, value |-> Null]
    [] outcome = "ok" -> [threw |-> FALSE, value |-> body]

\* Fault: no catch block, as in fetchMaxItem.
fetchWithoutCatch(outcome, body) == TryFetch(outcome, body)

\* fetchHNItem: the try block with `catch { return null }`.
fetchHNItem(outcome, body) ==
  LET tried == TryFetch(outcome, body) IN
  IF tried.threw THEN [threw |-> FALSE, value |-> Null] ELSE tried

\* One call of fetchHNItem(id), for every outcome of the remote request.
FetchItem ==
  /\ hn.op \in {"none", "fetchHNItem"}
  /\ \E id \in 1..FetchMaxId, outcome \in Outcomes :
       \E body \in Bodies(id) :
         hn' = [op |-> "fetchHNItem", id |-> id, outcome |-> outcome,
                body |-> body, result |-> fetchHNItem(outcome, body)]
  /\ UNCHANGED <<syncVars, kw>>

FetchNext == FetchItem

FetchInit == SyncAtRest /\ hn = NoCall /\ kw = NoExtraction

FetchSpec == FetchInit /\ [][FetchNext]_vars

(* ---------------------- hn-api.ts: fetchItemsBatch --------------------- *)
\* The longest list of IDs fetchItemsBatch is called with.
BatchMaxLen == 3
\* The largest `concurrency` fetchItemsBatch is called with.
BatchMaxConcurrency == 2
\* The IDs in those lists.
BatchMaxId == 2

\* The lists of IDs: every sequence of at most BatchMaxLen IDs.
IdLists == UNION {[1..n -> 1..BatchMaxId] : n \in 0..BatchMaxLen}

\* What one fetchHNItem(id) of a batch resolves to.
Fetched(id) ==
  {fetchHNItem(outcome, body).value :
     outcome \in Outcomes, body \in {Null, [id |-> id]}}

\* fetchItemsBatch(ids, concurrency) is called: results is filled with
\* null, i = 0.
BatchInit ==
  /\ SyncAtRest
  /\ kw = NoExtraction
  /\ \E ids \in IdLists, concurrency \in 1..BatchMaxConcurrency :
       hn = [op |-> "fetchItemsBatch", ids |-> ids,
             concurrency |-> concurrency, at |-> "loop", i |-> 0,
             outstanding |-> {}, chunkResults |-> <<>>,
             results |-> [k \in 1..Len(ids) |-> Null],
             settled |-> [k \in 1..Len(ids) |-> Null]]

\* The positions (from 1) of ids.slice(i, i + concurrency).
ChunkOf(ids, i, concurrency) == (i + 1)..Min(i + concurrency, Len(ids))

\* i < ids.length: chunk.map(id => fetchHNItem(id)) starts every fetch of
\* the window.
BatchLaunch ==
  /\ hn.op = "fetchItemsBatch" /\ hn.at = "loop"
  /\ hn.i < Len(hn.ids)
  /\ LET chunk == ChunkOf(hn.ids, hn.i, hn.concurrency) IN
     hn' = [hn EXCEPT !.at = "await", !.outstanding = chunk,
                      !.chunkResults = [j \in 1..Cardinality(chunk) |-> Null]]
  /\ UNCHANGED <<syncVars, kw>>

\* One fetch of the window resolves, in any order.
BatchSettle ==
  /\ hn.op = "fetchItemsBatch" /\ hn.at = "await"
  /\ \E k \in hn.outstanding : \E r \in Fetched(hn.ids[k]) :
       hn' = [hn EXCEPT !.outstanding = hn.outstanding \ {k},
                        !.chunkResults[k - hn.i] = r,
                        !.settled[k] = r]
  /\ UNCHANGED <<syncVars, kw>>

\* Fault: the results of a window are written from the start of the list.
BatchCollectAtStart ==
  /\ hn.op = "fetchItemsBatch" /\ hn.at = "await"
  /\ hn.outstanding = {}
  /\ hn' = [hn EXCEPT
              !.at = "loop",
              !.i = hn.i + hn.concurrency,
              !.results = [k \in 1..Len(hn.ids) |->
                             IF k \in 1..Len(hn.chunkResults)
                             THEN hn.chunkResults[k]
                             ELSE hn.results[k]]]
  /\ UNCHANGED <<syncVars, kw>>

\* Promise.all resolves: results[i + j] = chunkResults[j]; i += concurrency.
BatchCollect ==
  /\ hn.op = "fetchItemsBatch" /\ hn.at = "await"
  /\ hn.outstanding = {}
  /\ hn' = [hn EXCEPT
              !.at = "loop",
              !.i = hn.i + hn.concurrency,
              !.results = [k \in 1..Len(hn.ids) |->
                             IF k - hn.i \in 1..Len(hn.chunkResults)
                             THEN hn.chunkResults[k - hn.i]
                             ELSE hn.results[k]]]
  /\ UNCHANGED <<syncVars, kw>>

\* i >= ids.length: return results.
BatchReturn ==
  /\ hn.op = "fetchItemsBatch" /\ hn.at = "loop"
  /\ hn.i >= Len(hn.ids)
  /\ hn' = [hn EXCEPT !.at = "done"]
  /\ UNCHANGED <<syncVars, kw>>

BatchNext == BatchLaunch \/ BatchSettle \/ BatchCollect \/ BatchReturn

BatchSpec == BatchInit /\ [][BatchNext]_vars

(* ------------- keywords/extract-daily/route.ts: POST ------------------- *)
\* The calendar days the clock runs through; the items table holds items
\* from day 1 on.
MaxDay == 2
\* The item times and IDs the keyword search can find.
MaxItemTime == 3
MaxItemId == 2
\* The longest list aggregateKeywords returns for one day.
MaxAggregated == 2

Days == 1..MaxDay
Keywords == {"ai", "rust"}
FoundItems == [id : 1..MaxItemId, time : 1..MaxItemTime]
NoRow == [absent |-> TRUE]
NoDate == 0

\* The lists of display keywords aggregateKeywords returns: two groups can
\* show the same keyword.
AggregatedLists == UNION {[1..n -> Keywords] : n \in 0..MaxAggregated}

\* The values of the insert into keyword_stats: the row of a keyword that
\* has none.
insertStats(item) ==
  [firstSeenTime |-> item.time, lastItemTime |-> item.time,
   lastItemId |-> item.id, totalDaysAppeared |-> 1]

\* Fault: the re-processing upsert counts the day again.
upsertReprocessCounting(row, item) ==
  IF row = NoRow THEN insertStats(item)
  ELSE [row EXCEPT !.lastItemTime = item.time, !.lastItemId = item.id,
                   !.totalDaysAppeared = row.totalDaysAppeared + 1]

\* isReprocessingToday: onConflictDoUpdate sets lastItemTime and
\* lastItemId.
upsertReprocess(row, item) ==
  IF row = NoRow THEN insertStats(item)
  ELSE [row EXCEPT !.lastItemTime = item.time, !.lastItemId = item.id]

\* Fault: firstSeenTime is overwritten with the item's time.
upsertNewDayFirstSeen(row, item) ==
  IF row = NoRow THEN insertStats(item)
  ELSE [firstSeenTime |-> item.time,
        lastItemTime |-> Max(row.lastItemTime, item.time),
        lastItemId |-> IF item.time > row.lastItemTime
                       THEN item.id ELSE row.lastItemId,
        totalDaysAppeared |-> row.totalDaysAppeared + 1]

\* Otherwise: GREATEST, CASE WHEN itemTime > lastItemTime, LEAST, + 1.
upsertNewDay(row, item) ==
  IF row = NoRow THEN insertStats(item)
  ELSE [firstSeenTime |-> Min(row.firstSeenTime, item.time),
        lastItemTime |-> Max(row.lastItemTime, item.time),
        lastItemId |-> IF item.time > row.lastItemTime
                       THEN item.id ELSE row.lastItemId,
        totalDaysAppeared |-> row.totalDaysAppeared + 1]

\* The dates of daily_keywords (selectDistinct date).
DatesWithKeywords(daily) == {d \in Days : daily[d] # {}}

ExtractInit ==
  /\ SyncAtRest
  /\ hn = NoCall
  /\ kw = [op |-> "extract", at |-> "idle", clock |-> 1,
           daily |-> [d \in Days |-> {}],
           stats |-> [k \in Keywords |-> NoRow],
           maxDate |-> 1, failed |-> {}, forceReextract |-> FALSE,
           today |-> 1, existingDateSet |-> {}, dates |-> {},
           dateStr |-> NoDate, hadKeywords |-> FALSE,
           aggregated |-> <<>>, idx |-> 0]

\* Midnight UTC passes between two requests.
ExtractMidnight ==
  /\ kw.op = "extract" /\ kw.at = "idle"
  /\ kw.clock < MaxDay
  /\ kw' = [kw EXCEPT !.clock = kw.clock + 1]
  /\ UNCHANGED <<syncVars, hn>>

\* Fault: only the current day is processed.
datesTodayOnly(allDates, existingDateSet, today) ==
  {d \in allDates : d = today}

\* allDates.filter(d => !existingDateSet.has(d) || d === today).
datesToProcess(allDates, existingDateSet, today) ==
  {d \in allDates : d \notin existingDateSet \/ d = today}

\* POST up to the loop over the days: allDates from the oldest to the
\* newest item (items are never deleted), existingDateSet, today, the
\* deletes of ?force=true, dates.
ExtractBeginWith(forceReextract) ==
  /\ kw.op = "extract" /\ kw.at = "idle"
  /\ \E maxDate \in kw.maxDate..kw.clock :
       LET allDates == 1..maxDate
           existingDateSet == DatesWithKeywords(kw.daily)
           today == kw.clock
           dates == IF forceReextract THEN allDates
                    ELSE datesToProcess(allDates, existingDateSet, today)
       IN  IF dates = {}
           THEN kw' = [kw EXCEPT !.maxDate = maxDate,
                                 !.forceReextract = forceReextract]
           ELSE
           kw' = [kw EXCEPT
                    !.at = "days",
                    !.maxDate = maxDate,
                    !.forceReextract = forceReextract,
                    !.daily = IF forceReextract
                              THEN [d \in Days |-> {}] ELSE kw.daily,
                    !.stats = IF forceReextract
                              THEN [k \in Keywords |-> NoRow] ELSE kw.stats,
                    !.today = today,
                    !.existingDateSet = existingDateSet,
                    !.dates = dates,
                    !.dateStr = NoDate,
                    !.aggregated = <<>>,
                    !.idx = 0]
  /\ UNCHANGED <<syncVars, hn>>

\* isReprocessingToday of the day being processed.
isReprocessingToday ==
  kw.dateStr = kw.today /\ kw.today \in kw.existingDateSet

\* One pass of `for (const dateStr of dates)` up to the loop over the
\* aggregated keywords: the day is skipped (no items, little text), or the
\* keyword service cannot be reached or answers an error, which is logged
\* and skips the day (failed: the days whose latest pass logged that), or
\* the day's keywords are aggregated and, when there
\* are any, today's rows are deleted on re-processing and the day's rows
\* are inserted.
ExtractDay ==
  /\ kw.op = "extract" /\ kw.at = "days"
  /\ kw.dates # {}
  /\ LET dateStr == SetMin(kw.dates) IN
     \/ kw' = [kw EXCEPT !.dates = kw.dates \ {dateStr},
                         !.dateStr = NoDate,
                         !.failed = kw.failed \ {dateStr}]
     \/ kw' = [kw EXCEPT !.dates = kw.dates \ {dateStr},
                         !.dateStr = NoDate,
                         !.failed = kw.failed \cup {dateStr}]
     \/ \E aggregated \in AggregatedLists :
          IF Len(aggregated) = 0
          THEN kw' = [kw EXCEPT !.dates = kw.dates \ {dateStr},
                                !.dateStr = NoDate,
                                !.failed = kw.failed \ {dateStr}]
          ELSE LET kept == IF dateStr = kw.today
                              /\ kw.today \in kw.existingDateSet
                           THEN {} ELSE kw.daily[dateStr]
               IN  kw' = [kw EXCEPT
                            !.at = "stats",
                            !.dateStr = dateStr,
                            !.hadKeywords = kw.daily[dateStr] # {},
                            !.failed = kw.failed \ {dateStr},
                            !.daily[dateStr] =
                               kept \cup {aggregated[n] :
                                            n \in 1..Len(aggregated)},
                            !.aggregated = aggregated,
                            !.idx = 1]
  /\ UNCHANGED <<syncVars, hn>>

\* The search result when the items table is not modelled: any record.
AnyItem(keyword) == FoundItems

\* The search result over the items table of GrowSpec: a record with the
\* greatest time among those that contain the keyword (orderBy desc(time),
\* limit 1; records of equal time come in any order).
NewestItems(keyword) == {f \in FoundItems : f.time = kw.newest[keyword]}

\* One pass of `for (const kw of aggregated)`: the most recent item that
\* contains the keyword, if any, and the upsert of its keyword_stats row
\* (an upsert that throws is caught and logged); after the last keyword
\* the day is done. Found(keyword) is what the search can return.
ExtractStatsWith(Found(_)) ==
  /\ kw.op = "extract" /\ kw.at = "stats"
  /\ LET keyword == kw.aggregated[kw.idx]
         last == kw.idx = Len(kw.aggregated)
         after == [kw EXCEPT
                     !.idx = IF last THEN 0 ELSE kw.idx + 1,
                     !.aggregated = IF last THEN <<>> ELSE kw.aggregated,
                     !.at = IF last THEN "days" ELSE "stats",
                     !.dates = IF last THEN kw.dates \ {kw.dateStr}
                               ELSE kw.dates]
     IN
     \/ kw' = after
     \/ \E matchingItem \in Found(keyword) :
          kw' = [after EXCEPT
                   !.stats[keyword] =
                      IF isReprocessingToday
                      THEN upsertReprocess(kw.stats[keyword], matchingItem)
                      ELSE upsertNewDay(kw.stats[keyword], matchingItem)]
  /\ UNCHANGED <<syncVars, hn>>

ExtractStats == ExtractStatsWith(AnyItem)

\* The loop over the days is over: the response.
ExtractEnd ==
  /\ kw.op = "extract" /\ kw.at = "days"
  /\ kw.dates = {}
  /\ kw' = [kw EXCEPT !.at = "idle", !.dateStr = NoDate,
                      !.existingDateSet = {}, !.hadKeywords = FALSE]
  /\ UNCHANGED <<syncVars, hn>>

\* POST with or without ?force=true.
ExtractBegin == \E forceReextract \in BOOLEAN : ExtractBeginWith(forceReextract)

ExtractNext ==
  ExtractMidnight \/ ExtractBegin \/ ExtractDay \/ ExtractStats \/ ExtractEnd

ExtractSpec == ExtractInit /\ [][ExtractNext]_vars

\* Extractions without ?force=true only.
DailyNext ==
  \/ ExtractMidnight \/ ExtractBeginWith(FALSE) \/ ExtractDay \/ ExtractStats
  \/ ExtractEnd

DailySpec == ExtractInit /\ [][DailyNext]_vars

\* The items table next to the keyword tables: newest[k] is the greatest
\* time of the items that contain keyword k, 0 when none does.
GrowInit ==
  /\ SyncAtRest
  /\ hn = NoCall
  /\ kw = [op |-> "extract", at |-> "idle", clock |-> 1,
           daily |-> [d \in Days |-> {}],
           stats |-> [k \in Keywords |-> NoRow],
           maxDate |-> 1, failed |-> {}, forceReextract |-> FALSE,
           today |-> 1, existingDateSet |-> {}, dates |-> {},
           dateStr |-> NoDate, hadKeywords |-> FALSE,
           aggregated |-> <<>>, idx |-> 0,
           newest |-> [k \in Keywords |-> 0]]

\* A sync inserts an item of any time that contains some keywords
\* (batchInsertItems, onConflictDoNothing); no code updates or deletes a
\* row of items. It can happen between any two statements of a request.
GrowItems ==
  /\ kw.op = "extract"
  /\ \E matched \in SUBSET Keywords \ {{}}, time \in 1..MaxItemTime :
       kw' = [kw EXCEPT
                !.newest = [k \in Keywords |->
                              IF k \in matched THEN Max(kw.newest[k], time)
                              ELSE kw.newest[k]]]
  /\ UNCHANGED <<syncVars, hn>>

\* A pass of the loop over the days in which the keyword service answers.
GrowDay == ExtractDay /\ kw'.failed = {}

\* The stats loop with the search run on the items table.
GrowStats == ExtractStatsWith(NewestItems)

\* Extractions without ?force=true while the items table grows.
GrowNext ==
  \/ GrowItems \/ ExtractMidnight \/ ExtractBeginWith(FALSE) \/ GrowDay
  \/ GrowStats \/ ExtractEnd

GrowSpec == GrowInit /\ [][GrowNext]_vars

(* ------- keywords/extract-daily/route.ts: aggregateKeywords ------------ *)
\* The longest list of phrases the keyword service returns.
MaxPhrases == 3
\* The scores the keyword service gives.
MaxPhraseScore == 2

\* PorterStemmer.stem of one word, as far as the words below need it: a
\* plural loses its s.
PorterStem(word) ==
  IF Len(word) > 1 /\ SubSeq(word, Len(word), Len(word)) = "s"
  THEN SubSeq(word, 1, Len(word) - 1)
  ELSE word

\* stemKeyword of keyword-variants and stemPhrase of keyword-blacklist, on
\* phrases of one lower-case word.
stemKeyword(keyword) == PorterStem(keyword)

\* String.prototype.includes.
Includes(s, t) ==
  \E i \in 1..(Len(s) + 1) : \E j \in (i - 1)..Len(s) : SubSeq(s, i, j) = t

\* The phrases of the keyword service's answers, each with the stem the
\* service gives it.
Texts == {"ai", "rust", "rusts", "rustlang", "shows"}
Phrases ==
  {[keyword |-> t, stemmed |-> PorterStem(t), score |-> sc] :
     t \in Texts, sc \in 1..MaxPhraseScore}
PhraseLists == UNION {[1..n -> Phrases] : n \in 0..MaxPhrases}

\* BLACKLISTED_KEYWORDS, cut down to one entry, and STEMMED_BLACKLIST.
BLACKLISTED_KEYWORDS == {"show"}
STEMMED_BLACKLIST == {stemKeyword(k) : k \in BLACKLISTED_KEYWORDS}

\* The rows of blacklist_overrides, as the map loadOverrideCache builds:
\* stem -> "block" | "allow", "none" for no row.
OverrideStems == {"show", "rust"}
OverrideCaches == [OverrideStems -> {"none", "block", "allow"}]

\* The rows of keyword_variant_overrides, as the map loadVariantCache
\* builds: variantStem -> parentKeyword, "" for no row.
VariantStems == {"rustlang", "show"}
ParentKeywords == {"rust", "show"}
NoParent == ""
VariantCaches == [VariantStems -> ParentKeywords \cup {NoParent}]

\* getParentKeyword(keyword): cache.get(stem) || null.
getParentKeyword(variantCache, keyword) ==
  LET stem == stemKeyword(keyword) IN
  IF stem \in DOMAIN variantCache THEN variantCache[stem] ELSE NoParent

\* isStemBlacklisted(stemmedKeyword): the default stems only.
isStemBlacklisted(stemmedKeyword) ==
  \E blacklistedStem \in STEMMED_BLACKLIST :
    Includes(stemmedKeyword, blacklistedStem)

\* isBlacklistedWithOverrides on a stem: the user's override of the stem
\* first, the default stems otherwise.
isBlacklistedWithOverrides(overrideCache, stemmed) ==
  LET override == IF stemmed \in DOMAIN overrideCache
                  THEN overrideCache[stemmed] ELSE "none"
  IN  CASE override = "allow" -> FALSE
        [] override = "block" -> TRUE
        [] OTHER -> \E blacklistedStem \in STEMMED_BLACKLIST :
                      Includes(stemmed, blacklistedStem)

GroupKeys == {PorterStem(t) : t \in Texts} \cup ParentKeywords
NoGroup == [absent |-> TRUE]

\* b.count - a.count: `entry` goes behind every entry of at least its
\* count (Array.prototype.sort is stable).
InsertByCount(sorted, entry) ==
  LET smaller == {p \in 1..Len(sorted) : sorted[p].count < entry.count}
      pos == IF smaller = {} THEN Len(sorted) + 1 ELSE SetMin(smaller)
  IN  SubSeq(sorted, 1, pos - 1) \o <<entry>>
        \o SubSeq(sorted, pos, Len(sorted))

RECURSIVE SortByCount(_)
SortByCount(entries) ==
  IF entries = <<>> THEN <<>>
  ELSE InsertByCount(SortByCount(SubSeq(entries, 1, Len(entries) - 1)),
                     entries[Len(entries)])

\* aggregateKeywords(keywords) is called; the two tables hold any rows.
AggregateInit ==
  /\ SyncAtRest
  /\ hn = NoCall
  /\ \E keywords \in PhraseLists, variantCache \in VariantCaches,
        overrideCache \in OverrideCaches :
       kw = [op |-> "aggregateKeywords", at |-> "loop",
             keywords |-> keywords, variantCache |-> variantCache,
             overrideCache |-> overrideCache, n |-> 1,
             groups |-> [g \in GroupKeys |-> NoGroup], order |-> <<>>,
             skipped |-> {}, result |-> <<>>, rows |-> {}]

\* The body of the loop after the blacklist check, on the group of the
\* phrase: created with the parent or the phrase as display keyword, then
\* push, += score, count++, and the shorter phrase of no parent shown.
AggregateInto(groups, phrase, parentKeyword, groupKey) ==
  LET group == IF groups[groupKey] = NoGroup
               THEN [keywords |-> <<>>, totalScore |-> 0, count |-> 0,
                     shortestKeyword |->
                       IF parentKeyword # NoParent THEN parentKeyword
                       ELSE phrase.keyword]
               ELSE groups[groupKey]
  IN  [keywords |-> Append(group.keywords, phrase.keyword),
       totalScore |-> group.totalScore + phrase.score,
       count |-> group.count + 1,
       shortestKeyword |->
         IF parentKeyword = NoParent
            /\ Len(phrase.keyword) < Len(group.shortestKeyword)
         THEN phrase.keyword ELSE group.shortestKeyword]

\* One pass of `for (const kw of keywords)`.
AggregatePhrase ==
  /\ kw.op = "aggregateKeywords" /\ kw.at = "loop"
  /\ kw.n <= Len(kw.keywords)
  /\ LET phrase == kw.keywords[kw.n] IN
     IF isStemBlacklisted(phrase.stemmed)
     THEN kw' = [kw EXCEPT !.n = kw.n + 1,
                           !.skipped = kw.skipped \cup {kw.n}]
     ELSE LET parentKeyword == getParentKeyword(kw.variantCache,
                                                phrase.keyword)
              groupKey == IF parentKeyword # NoParent THEN parentKeyword
                          ELSE phrase.stemmed
          IN  kw' = [kw EXCEPT
                       !.n = kw.n + 1,
                       !.order = IF kw.groups[groupKey] = NoGroup
                                 THEN Append(kw.order, groupKey)
                                 ELSE kw.order,
                       !.groups[groupKey] =
                          AggregateInto(kw.groups, phrase, parentKeyword,
                                        groupKey)]
  /\ UNCHANGED <<syncVars, hn>>

\* Object.entries(groups).map(...).sort(...): the groups in the order of
\* their creation, sorted by count, largest first.
AggregatedOf(groups, order) ==
  SortByCount([p \in 1..Len(order) |->
    LET data == groups[order[p]] IN
    [keyword |-> data.shortestKeyword,
     stem |-> order[p],
     avgScore |-> [sum |-> data.totalScore, over |-> data.count],
     count |-> data.count,
     variants |-> data.keywords]])

\* The loop is over: the groups are returned.
AggregateReturn ==
  /\ kw.op = "aggregateKeywords" /\ kw.at = "loop"
  /\ kw.n > Len(kw.keywords)
  /\ kw' = [kw EXCEPT
              !.at = "done",
              !.result = AggregatedOf(kw.groups, kw.order)]
  /\ UNCHANGED <<syncVars, hn>>

AggregateNext == AggregatePhrase \/ AggregateReturn

AggregateSpec == AggregateInit /\ [][AggregateNext]_vars

(* ----- keywords/extract-daily/route.ts: POST, the rows of one day ------ *)
\* a < b for two means sum/over.
MeanLess(a, b) == a.sum * b.over < b.sum * a.over

\* db.insert(dailyKeywords).values(aggregated.map(...)).onConflictDoNothing()
\* on a date without rows: rank is idx + 1, and a row whose (date, keyword)
\* is already there is left out.
InsertDaily(aggregated) ==
  {[keyword |-> aggregated[p].keyword,
    stemmedKeyword |-> aggregated[p].stem,
    score |-> aggregated[p].avgScore,
    rank |-> p,
    variantCount |-> aggregated[p].count] :
     p \in {q \in 1..Len(aggregated) :
              \A o \in 1..(q - 1) :
                aggregated[o].keyword # aggregated[q].keyword}}

\* The number of groups of "Store top 75 keywords", scaled.
TopN == 2

\* `if (aggregated.length > 0)`: the day's rows are inserted.
PersistDay ==
  /\ kw.op = "aggregateKeywords" /\ kw.at = "done"
  /\ kw' = [kw EXCEPT !.at = "stored",
                      !.rows = IF Len(kw.result) > 0
                               THEN InsertDaily(kw.result) ELSE {}]
  /\ UNCHANGED <<syncVars, hn>>

PersistNext == AggregatePhrase \/ AggregateReturn \/ PersistDay

PersistSpec == AggregateInit /\ [][PersistNext]_vars

(* ------ aggregateKeywords, called twice on one list of phrases --------- *)
\* The rows of keyword_variant_overrides.
VariantRows == [variantStem : VariantStems, parentKeyword : ParentKeywords]

\* Fault: a table without the unique constraint on variant_stem.
VariantTablesNotUnique == SUBSET VariantRows

\* The tables the unique constraint on variant_stem allows.
VariantTables ==
  {table \in SUBSET VariantRows :
     \A r1, r2 \in table : r1.variantStem = r2.variantStem => r1 = r2}

\* The orders in which a select without ORDER BY can return the rows.
RowOrders(table) ==
  {order \in [1..Cardinality(table) -> table] :
     \A i, j \in 1..Cardinality(table) : order[i] = order[j] => i = j}

\* loadVariantCache's loop: variantCache.set(variantStem, parentKeyword)
\* for the rows in the order they came.
BuildVariantCache(overrides) ==
  [stem \in {overrides[i].variantStem : i \in 1..Len(overrides)} |->
     LET last == SetMax({i \in 1..Len(overrides) :
                           overrides[i].variantStem = stem})
     IN  overrides[last].parentKeyword]

NoCache == [null |-> TRUE]

\* The loop of aggregateKeywords from the n-th phrase on.
RECURSIVE AggregateFrom(_, _, _, _, _)
AggregateFrom(keywords, variantCache, n, groups, order) ==
  IF n > Len(keywords) THEN AggregatedOf(groups, order)
  ELSE LET phrase == keywords[n] IN
       IF isStemBlacklisted(phrase.stemmed)
       THEN AggregateFrom(keywords, variantCache, n + 1, groups, order)
       ELSE LET parentKeyword == getParentKeyword(variantCache,
                                                  phrase.keyword)
                groupKey == IF parentKeyword # NoParent THEN parentKeyword
                            ELSE phrase.stemmed
            IN  AggregateFrom(
                  keywords, variantCache, n + 1,
                  [groups EXCEPT ![groupKey] =
                     AggregateInto(groups, phrase, parentKeyword, groupKey)],
                  IF groups[groupKey] = NoGroup
                  THEN Append(order, groupKey) ELSE order)

\* aggregateKeywords(keywords) with the variant cache it finds.
aggregateKeywords(keywords, variantCache) ==
  AggregateFrom(keywords, variantCache, 1,
                [g \in GroupKeys |-> NoGroup], <<>>)

\* A list of phrases and a table of overrides, about to be aggregated
\* twice by one process whose cache is empty.
TwiceInit ==
  /\ SyncAtRest
  /\ hn = NoCall
  /\ \E keywords \in PhraseLists, table \in VariantTables :
       kw = [op |-> "aggregateTwice", keywords |-> keywords,
             table |-> table, variantCache |-> NoCache,
             results |-> <<>>]

\* One call of aggregateKeywords: loadVariantCache keeps a cache younger
\* than CACHE_TTL_MS and otherwise reads the table, in whatever order the
\* rows come.
TwiceRun ==
  /\ kw.op = "aggregateTwice"
  /\ Len(kw.results) < 2
  /\ \E variantCache \in
          {BuildVariantCache(order) : order \in RowOrders(kw.table)}
            \cup ({kw.variantCache} \ {NoCache}) :
       kw' = [kw EXCEPT
                !.variantCache = variantCache,
                !.results = Append(kw.results,
                                   aggregateKeywords(kw.keywords,
                                                     variantCache))]
  /\ UNCHANGED <<syncVars, hn>>

TwiceNext == TwiceRun

TwiceSpec == TwiceInit /\ [][TwiceNext]_vars

(* ---------- keywords/variants/route.ts and keyword-variants ------------ *)
\* The keywords the variants endpoint is called with.
VariantKeywords == {"ai", "rust", "rusts", "rustlang"}

\* Fault: clearVariantCache leaves the cache as it is.
clearVariantCacheKept(cache) == cache

\* clearVariantCache(): variantCache = null, cacheTimestamp = 0.
clearVariantCache(cache) == [map |-> NoCache, fresh |-> FALSE]

\* loadVariantCache(): the cache if there is one younger than CACHE_TTL_MS,
\* otherwise the table's rows, stamped now.
loadVariantCache(cache, table) ==
  IF cache.map # NoCache /\ cache.fresh THEN cache
  ELSE [map |-> BuildVariantCache(CHOOSE order \in RowOrders(table) : TRUE),
        fresh |-> TRUE]

\* hasVariants(keyword): a row with this parent keyword exists.
hasVariants(table, keyword) == \E row \in table : row.parentKeyword = keyword

NoRequest == [kind |-> "none"]

VariantInit ==
  /\ SyncAtRest
  /\ hn = NoCall
  /\ kw = [op |-> "variants", table |-> {},
           cache |-> [map |-> NoCache, fresh |-> FALSE],
           last |-> NoRequest]

\* More than CACHE_TTL_MS pass since the cache was loaded.
VariantCacheExpires ==
  /\ kw.op = "variants"
  /\ kw.cache.map # NoCache /\ kw.cache.fresh
  /\ kw' = [kw EXCEPT !.cache.fresh = FALSE]
  /\ UNCHANGED <<syncVars, hn>>

\* getParentKeyword(keyword) somewhere in the process.
VariantLookup ==
  /\ kw.op = "variants"
  /\ \E keyword \in VariantKeywords :
       LET cache == loadVariantCache(kw.cache, kw.table) IN
       kw' = [kw EXCEPT
                !.cache = cache,
                !.last = [kind |-> "lookup", keyword |-> keyword,
                          after |-> IF kw.last.kind = "lookup"
                                    THEN [kind |-> "lookup"] ELSE kw.last,
                          result |-> getParentKeyword(cache.map, keyword)]]
  /\ UNCHANGED <<syncVars, hn>>

\* POST /api/keywords/variants {parentKeyword, variantKeyword}.
VariantCreate ==
  /\ kw.op = "variants"
  /\ \E cleanParent \in VariantKeywords, cleanVariant \in VariantKeywords :
       LET variantStem == stemKeyword(cleanVariant)
           cache == loadVariantCache(kw.cache, kw.table)
           parentIsVariant ==
             getParentKeyword(cache.map, cleanParent) # NoParent
           existingVariants ==
             {row \in kw.table : row.variantStem = variantStem}
           answer(success, wrote) ==
             [kind |-> "create", parentKeyword |-> cleanParent,
              variantKeyword |-> cleanVariant, success |-> success,
              wrote |-> wrote]
       IN  IF cleanParent = cleanVariant
           THEN kw' = [kw EXCEPT !.last = answer(FALSE, FALSE)]
           ELSE IF parentIsVariant
           THEN kw' = [kw EXCEPT !.cache = cache,
                                 !.last = answer(FALSE, FALSE)]
           ELSE IF existingVariants # {}
           THEN kw' = [kw EXCEPT
                         !.cache = cache,
                         !.last = answer(\A row \in existingVariants :
                                           row.parentKeyword = cleanParent,
                                         FALSE)]
           ELSE kw' = [kw EXCEPT
                         !.table = kw.table \cup
                            {[parentKeyword |-> cleanParent,
                              parentStem |-> stemKeyword(cleanParent),
                              variantKeyword |-> cleanVariant,
                              variantStem |-> variantStem]},
                         !.cache = clearVariantCache(cache),
                         !.last = answer(TRUE, TRUE)]
  /\ UNCHANGED <<syncVars, hn>>

\* DELETE /api/keywords/variants?variantKeyword=...
VariantDelete ==
  /\ kw.op = "variants"
  /\ \E cleanVariant \in VariantKeywords :
       LET variantStem == stemKeyword(cleanVariant)
           answer(success) ==
             [kind |-> "delete", variantKeyword |-> cleanVariant,
              success |-> success, wrote |-> success]
       IN  IF hasVariants(kw.table, cleanVariant)
           THEN kw' = [kw EXCEPT !.last = answer(FALSE)]
           ELSE kw' = [kw EXCEPT
                         !.table = {row \in kw.table :
                                      row.variantStem # variantStem},
                         !.cache = clearVariantCache(kw.cache),
                         !.last = answer(TRUE)]
  /\ UNCHANGED <<syncVars, hn>>

VariantNext ==
  VariantCacheExpires \/ VariantLookup \/ VariantCreate \/ VariantDelete

VariantSpec == VariantInit /\ [][VariantNext]_vars

(* --------- keywords/blacklist/route.ts and keyword-blacklist ----------- *)
\* The keywords the blacklist endpoint and the lookups are called with.
BlacklistKeywords == {"shows", "show", "rust"}

\* loadOverrideCache(): the cache if there is one younger than
\* CACHE_TTL_MS, otherwise the table's rows, stamped now.
loadOverrideCache(cache, table) ==
  IF cache.map # NoCache /\ cache.fresh THEN cache
  ELSE [map |-> table, fresh |-> TRUE]

BlacklistInit ==
  /\ SyncAtRest
  /\ hn = NoCall
  /\ kw = [op |-> "blacklist", table |-> [stem \in OverrideStems |-> "none"],
           cache |-> [map |-> NoCache, fresh |-> FALSE],
           last |-> NoRequest]

\* More than CACHE_TTL_MS pass since the cache was loaded.
BlacklistCacheExpires ==
  /\ kw.op = "blacklist"
  /\ kw.cache.map # NoCache /\ kw.cache.fresh
  /\ kw' = [kw EXCEPT !.cache.fresh = FALSE]
  /\ UNCHANGED <<syncVars, hn>>

\* isBlacklistedWithOverrides(keyword) somewhere in the process.
BlacklistLookup ==
  /\ kw.op = "blacklist"
  /\ \E keyword \in BlacklistKeywords :
       LET cache == loadOverrideCache(kw.cache, kw.table) IN
       kw' = [kw EXCEPT
                !.cache = cache,
                !.last = [kind |-> "lookup", keyword |-> keyword,
                          after |-> IF kw.last.kind = "lookup"
                                    THEN [kind |-> "lookup"] ELSE kw.last,
                          result |-> isBlacklistedWithOverrides(
                                       cache.map, stemKeyword(keyword))]]
  /\ UNCHANGED <<syncVars, hn>>

\* POST /api/keywords/blacklist {keyword, action}: the override of the
\* stem is updated if there is one and inserted otherwise.
BlacklistPost ==
  /\ kw.op = "blacklist"
  /\ \E keyword \in BlacklistKeywords, action \in {"block", "allow"} :
       LET stem == stemKeyword(keyword) IN
       kw' = [kw EXCEPT
                !.table[stem] = action,
                !.last = [kind |-> "post", keyword |-> keyword,
                          action |-> action, success |-> TRUE,
                          updated |-> kw.table[stem] # "none"]]
  /\ UNCHANGED <<syncVars, hn>>

\* DELETE /api/keywords/blacklist?keyword=... (or ?id= of the same row):
\* 404 when there is no such override.
BlacklistDelete ==
  /\ kw.op = "blacklist"
  /\ \E keyword \in BlacklistKeywords :
       LET stem == stemKeyword(keyword) IN
       kw' = [kw EXCEPT
                !.table[stem] = "none",
                !.last = [kind |-> "delete", keyword |-> keyword,
                          success |-> kw.table[stem] # "none"]]
  /\ UNCHANGED <<syncVars, hn>>

BlacklistNext ==
  BlacklistCacheExpires \/ BlacklistLookup \/ BlacklistPost
    \/ BlacklistDelete

BlacklistSpec == BlacklistInit /\ [][BlacklistNext]_vars

(* ------------------- keywords/trends/route.ts: GET --------------------- *)
\* The dates daily_keywords can hold rows for.
MaxTrendDay == 3
\* The largest rank of a row.
MaxRank == 4
\* The length of topGainers, topLosers and newThisWeek (10), scaled.
MoversCap == 2

TrendDays == 1..MaxTrendDay
TrendKeywords == {"ai", "rust", "constructor"}

\* The rows of one date: keyword -> rank, (date, keyword) being unique;
\* the ranks of a date differ.
DayTables ==
  UNION {{t \in [present -> 1..MaxRank] :
            \A k1, k2 \in present : t[k1] = t[k2] => k1 = k2} :
         present \in SUBSET TrendKeywords}

\* JavaScript values: a number, null, NaN, a function object.
Num(n) == [num |-> n]
NaN == [nan |-> TRUE]
FunctionObject == [function |-> "Object"]
IsNum(v) == DOMAIN v = {"num"}

\* The lower-case property names every object literal inherits.
ObjectPrototypeNames == {"constructor"}

\* record[key] ?? null on a Record<string, number> built from `{}`: the
\* own property, else the inherited one, else undefined, which ?? turns
\* into null.
RecordGet(record, key) ==
  IF key \in DOMAIN record THEN Num(record[key])
  ELSE IF key \in ObjectPrototypeNames THEN FunctionObject
  ELSE Null

\* a - b where b is a number.
Minus(a, b) == IF IsNum(a) THEN Num(a.num - b) ELSE NaN

\* The keywords of a date in the order of their ranks (orderBy rank).
RECURSIVE ByRank(_)
ByRank(table) ==
  IF DOMAIN table = {} THEN <<>>
  ELSE LET first == CHOOSE k \in DOMAIN table :
                      \A o \in DOMAIN table : table[k] <= table[o]
       IN  <<first>> \o ByRank([k \in DOMAIN table \ {first} |-> table[k]])

\* The body of currentDay.map: previousRank, rankChange, trend.
KeywordTrend(keyword, rank, prevRankMap) ==
  LET previousRank == RecordGet(prevRankMap, keyword)
      rankChange == IF previousRank = Null THEN Null
                    ELSE Minus(previousRank, rank)
  IN  [keyword |-> keyword, currentRank |-> rank,
       previousRank |-> previousRank, rankChange |-> rankChange,
       trend |-> IF previousRank = Null THEN "new"
                 ELSE IF IsNum(rankChange) /\ rankChange.num > 2 THEN "up"
                 ELSE IF IsNum(rankChange) /\ rankChange.num < -2
                 THEN "down"
                 ELSE "stable"]

\* The comparator of weeklyMovers.sort.
CompareMovers(a, b) ==
  IF a.weeklyChange = Null THEN 1
  ELSE IF b.weeklyChange = Null THEN -1
  ELSE IF IsNum(a.weeklyChange) /\ IsNum(b.weeklyChange)
  THEN b.weeklyChange.num - a.weeklyChange.num
  ELSE 0

\* Array.prototype.sort as an insertion sort: `mover` goes behind the last
\* entry that the comparator does not put after it.
InsertMover(sorted, mover) ==
  LET notAfter == {j \in 1..Len(sorted) :
                     CompareMovers(sorted[j], mover) <= 0}
      pos == IF notAfter = {} THEN 0 ELSE SetMax(notAfter)
  IN  SubSeq(sorted, 1, pos) \o <<mover>>
        \o SubSeq(sorted, pos + 1, Len(sorted))

RECURSIVE SortMovers(_)
SortMovers(movers) ==
  IF movers = <<>> THEN <<>>
  ELSE InsertMover(SortMovers(SubSeq(movers, 1, Len(movers) - 1)),
                   movers[Len(movers)])

\* Array.prototype.filter.
Filter(seq, Keep(_)) ==
  LET kept == {i \in 1..Len(seq) : Keep(seq[i])}
      At(n) == CHOOSE i \in kept : Cardinality({j \in kept : j < i}) = n - 1
  IN  [n \in 1..Cardinality(kept) |-> seq[At(n)]]

\* slice(0, n), slice(-n) and reverse().
SliceHead(seq, n) == SubSeq(seq, 1, Min(n, Len(seq)))
SliceTail(seq, n) == SubSeq(seq, Max(1, Len(seq) - n + 1), Len(seq))
Reverse(seq) == [i \in 1..Len(seq) |-> seq[Len(seq) + 1 - i]]

\* weeklyChange ?? 0 compared with 0.
Gained(m) == IsNum(m.weeklyChange) /\ m.weeklyChange.num > 0
Lost(m) == IsNum(m.weeklyChange) /\ m.weeklyChange.num < 0
IsNewMover(m) == m.isNew

\* Object.keys(byDate).sort(): the dates that have rows, and the i-th of
\* them.
DatesWithRows(daily) == {d \in TrendDays : DOMAIN daily[d] # {}}
DateAt(daily, i) ==
  CHOOSE d \in DatesWithRows(daily) :
    Cardinality({o \in DatesWithRows(daily) : o < d}) = i - 1

\* The loop over the dates: each date's keywords against the date before.
DailyTrendsOf(daily) ==
  [i \in 1..Cardinality(DatesWithRows(daily)) |->
     LET currentDay == daily[DateAt(daily, i)]
         prevRankMap == IF i > 1 THEN daily[DateAt(daily, i - 1)] ELSE <<>>
         order == ByRank(currentDay)
     IN  [date |-> DateAt(daily, i),
          keywords |->
            [p \in 1..Len(order) |->
               KeywordTrend(order[p], currentDay[order[p]], prevRankMap)]]]

\* weeklyMovers: the keywords of the latest date against the first date,
\* sorted.
WeeklyMoversOf(daily) ==
  LET trends == DailyTrendsOf(daily)
      latestDay == trends[Len(trends)]
      firstDayRanks == daily[DateAt(daily, 1)]
  IN  SortMovers([p \in 1..Len(latestDay.keywords) |->
        LET entry == latestDay.keywords[p]
            startRank == RecordGet(firstDayRanks, entry.keyword)
        IN  [keyword |-> entry.keyword,
             currentRank |-> entry.currentRank,
             startRank |-> startRank,
             weeklyChange |-> IF startRank = Null THEN Null
                              ELSE Minus(startRank, entry.currentRank),
             isNew |-> startRank = Null]])

\* The response of GET /api/keywords/trends on the rows `daily`.
TrendsOf(daily) ==
  IF DatesWithRows(daily) = {} THEN [status |-> 404]
  ELSE LET weeklyMovers == WeeklyMoversOf(daily) IN
       [status |-> 200,
        totalDays |-> Cardinality(DatesWithRows(daily)),
        dailyTrends |-> DailyTrendsOf(daily),
        topGainers |-> SliceHead(Filter(weeklyMovers, Gained), MoversCap),
        topLosers |-> Reverse(SliceTail(Filter(weeklyMovers, Lost),
                                        MoversCap)),
        newThisWeek |-> SliceHead(Filter(weeklyMovers, IsNewMover),
                                  MoversCap)]

NoResponse == [status |-> 0]

\* daily_keywords holds any rows.
TrendsInit ==
  /\ SyncAtRest
  /\ hn = NoCall
  /\ \E daily \in [TrendDays -> DayTables] :
       kw = [op |-> "trends", daily |-> daily, weeklyMovers |-> <<>>,
             response |-> NoResponse]

\* GET /api/keywords/trends.
TrendsGet ==
  /\ kw.op = "trends"
  /\ kw.response = NoResponse
  /\ kw' = [kw EXCEPT
              !.weeklyMovers = IF DatesWithRows(kw.daily) = {} THEN <<>>
                               ELSE WeeklyMoversOf(kw.daily),
              !.response = TrendsOf(kw.daily)]
  /\ UNCHANGED <<syncVars, hn>>

TrendsNext == TrendsGet

TrendsSpec == TrendsInit /\ [][TrendsNext]_vars

(* ------------- POST /api/keywords/process-queue (lib/keyword-queue) ---- *)
\* The most queue records of a behaviour.
MaxQueueRecords == 3

\* The most retries counted on one record.
MaxRetry == 2

\* The ids of the queue records.
QueueIds == 1..Len(kw.records)

\* The ids in S in ascending order: records are created one after another,
\* so the order by createdAt is the order of the ids.
RECURSIVE Ascending(_)
Ascending(S) ==
  IF S = {} THEN <<>> ELSE <<SetMin(S)>> \o Ascending(S \ {SetMin(S)})

\* Fault: every record is selected, whatever its status.
findAllRecords(records) == Ascending(1..Len(records))

\* findPendingRecords: the records with status pending or failed, oldest
\* first.
findPendingRecords(records) ==
  Ascending({id \in 1..Len(records) :
               records[id].status \in {"pending", "failed"}})

\* updateStatus(id, status): sets the status, nothing else of the model.
updateStatus(records, id, status) == [records EXCEPT ![id].status = status]

\* incrementRetry(id): reads the record, writes retryCount + 1 and pending.
incrementRetry(records, id) ==
  [records EXCEPT ![id].retryCount = records[id].retryCount + 1,
                  ![id].status = "pending"]

\* logError(id, error, shouldRetry).
logError(records, id, shouldRetry) ==
  IF shouldRetry THEN incrementRetry(records, id)
  ELSE updateStatus(records, id, "failed")

QueueInit ==
  /\ SyncAtRest
  /\ hn = NoCall
  /\ kw = [op |-> "queue", records |-> <<>>, at |-> "idle",
           pendingRecords |-> <<>>, idx |-> 0]

\* createQueueRecord(syncRunId), called by the cron trigger: a new pending
\* record with retryCount 0.
QueueCreate ==
  /\ kw.op = "queue"
  /\ Len(kw.records) < MaxQueueRecords
  /\ kw' = [kw EXCEPT !.records =
              Append(kw.records, [status |-> "pending", retryCount |-> 0])]
  /\ UNCHANGED <<syncVars, hn>>

\* POST: findPendingRecords; with nothing to do the request answers at once.
ProcessFind ==
  /\ kw.op = "queue" /\ kw.at = "idle"
  /\ LET pendingRecords == findPendingRecords(kw.records) IN
     kw' = IF Len(pendingRecords) = 0 THEN kw
           ELSE [kw EXCEPT !.at = "mark", !.pendingRecords = pendingRecords,
                           !.idx = 1]
  /\ UNCHANGED <<syncVars, hn>>

\* for (const record of pendingRecords): mark the record as processing.
ProcessMark ==
  /\ kw.op = "queue" /\ kw.at = "mark"
  /\ kw' = [kw EXCEPT
              !.records = updateStatus(kw.records, kw.pendingRecords[kw.idx],
                                       "processing"),
              !.at = "call"]
  /\ UNCHANGED <<syncVars, hn>>

\* The call of the extract-daily endpoint and what follows it: completed
\* when the answer is ok, logError(record.id, error, true) when the call
\* throws or the answer is not ok; then the next record, or the answer.
ProcessCall ==
  /\ kw.op = "queue" /\ kw.at = "call"
  /\ LET id == kw.pendingRecords[kw.idx]
         last == kw.idx = Len(kw.pendingRecords)
     IN  \E ok \in BOOLEAN :
           /\ ~ok => kw.records[id].retryCount < MaxRetry
           /\ kw' = [kw EXCEPT
                       !.records = IF ok
                                   THEN updateStatus(kw.records, id, "completed")
                                   ELSE logError(kw.records, id, TRUE),
                       !.at = IF last THEN "idle" ELSE "mark",
                       !.idx = IF last THEN 0 ELSE kw.idx + 1,
                       !.pendingRecords = IF last THEN <<>>
                                          ELSE kw.pendingRecords]
  /\ UNCHANGED <<syncVars, hn>>

QueueNext == QueueCreate \/ ProcessFind \/ ProcessMark \/ ProcessCall

QueueSpec == QueueInit /\ [][QueueNext]_vars

\* A request that has started goes on to its answer: the loop has no wait.
QueueFairSpec == QueueSpec /\ WF_vars(ProcessMark) /\ WF_vars(ProcessCall)

(* ------------- runs processed by one processChunk call at a time ------- *)
\* The most processChunk calls counted on one run.
MaxWalkCalls == 5

\* The IDs a feed request can name: a window reaches down to targetEndItem,
\* which is 0 on an empty store.
FeedIds == 0..MaxId

\* The feed's log of one new run, created by the start route `start`: no
\* call yet, no ID requested.
NoWalk(start) == [start |-> start, calls |-> 0, throws |-> 0, sizes |-> {},
                  requested |-> [i \in FeedIds |-> 0]]

\* The synchronisation engine with the feed's log of the requests of every
\* run in kw: the processChunk calls made on the run before it was
\* completed, how many of them threw, the chunk sizes used on it and how
\* often each ID was requested.
WalkInit ==
  /\ remoteMax \in 1..MaxId
  /\ items = [i \in Ids |-> Absent]
  /\ users = {}
  /\ runs = <<>>
  /\ completedOrder = <<>>
  /\ queue = <<>>
  /\ pc = [w \in Workers |-> "idle"]
  /\ loc = [w \in Workers |-> NoLoc]
  /\ resp = [w \in Workers |-> NoResp]
  /\ hn = NoCall
  /\ kw = [op |-> "walk", log |-> <<>>]

\* The feed assigns a new ID.
WalkFeedGrow ==
  /\ remoteMax < MaxId
  /\ remoteMax' = remoteMax + 1
  /\ UNCHANGED <<items, users, runs, completedOrder, queue, pc, loc, resp,
                 hn, kw>>

\* POST /api/sync/incremental, and the start of GET /api/cron/sync, from
\* the lookup of an active run to the answer.
WalkIncremental ==
  /\ LET existing == findExistingRunningSyncOrPaused
         targetEndItem == LocalMaxItem
         startMaxItem == remoteMax
         totalItems == Max(0, startMaxItem - targetEndItem) IN
     IF existing # 0
     THEN /\ runs' = resumeSyncRun(existing)
          /\ kw' = kw
     ELSE IF totalItems = 0
     THEN UNCHANGED <<runs, kw>>
     ELSE /\ Len(runs) < MaxRuns
          /\ runs' = createSyncRun(startMaxItem, targetEndItem, totalItems)
          /\ kw' = [kw EXCEPT !.log = Append(kw.log, NoWalk("incremental"))]
  /\ UNCHANGED <<remoteMax, items, users, completedOrder, queue, pc, loc,
                 resp, hn>>

\* POST /api/sync/initial from its count of the stored items to the answer.
WalkInitial ==
  /\ Cardinality(StoredIds) = 0
  /\ LET existing == findExistingRunningSyncOrPaused IN
     IF existing # 0
     THEN /\ runs' = resumeSyncRun(existing)
          /\ kw' = kw
     ELSE /\ Len(runs) < MaxRuns
          /\ \E oneWeekAgo \in 0..MaxId, gone \in SUBSET (1..remoteMax) :
               LET targetEndItem ==
                     findItemIdAtTimestamp(oneWeekAgo, remoteMax, 1, gone)
                   totalItems == Max(0, remoteMax - targetEndItem) IN
               runs' = createSyncRun(remoteMax, targetEndItem, totalItems)
          /\ kw' = [kw EXCEPT !.log = Append(kw.log, NoWalk("initial"))]
  /\ UNCHANGED <<remoteMax, items, users, completedOrder, queue, pc, loc,
                 resp, hn>>

\* One processChunk call on a run that is not completed, from its load of
\* the run to its answer, by the chunk route or by the cron trigger: the
\* window is empty and the run is marked completed, or the window is
\* requested from the feed, the authors and the valid records are inserted
\* and the cursor is committed; an insert that breaks the foreign key
\* throws and nothing is committed.
WalkChunk ==
  \E id \in RunIds, kind \in {"route", "cron"} :
    LET sync == runs[id]
        ids == IdsToFetch(sync, ChunkSize(kind))
        called == [kw.log[id] EXCEPT !.calls = kw.log[id].calls + 1,
                                     !.sizes = kw.log[id].sizes
                                                 \cup {ChunkSize(kind)}]
    IN
    /\ sync.status # "completed"
    /\ kw.log[id].calls < MaxWalkCalls
    /\ IF ids = {}
       THEN /\ runs' = [runs EXCEPT ![id].status = "completed"]
            /\ completedOrder' = StampCompleted(id)
            /\ kw' = [kw EXCEPT !.log[id] = called]
            /\ UNCHANGED <<items, users>>
       ELSE \E valid \in FetchOutcomes(ids), found \in SUBSET {"u1"} :
              LET usersNow == IF valid = {} THEN users
                              ELSE batchInsertUsers(Usernames(valid), found)
                  throws == ~(Usernames(valid) \subseteq usersNow)
                  row == CommittedRun(runs[id], sync, ids,
                                      InsertedCount(valid))
                  isDone == row.status = "completed"
              IN
              /\ users' = usersNow
              /\ kw' = [kw EXCEPT !.log[id] =
                          [called EXCEPT
                             !.throws = called.throws
                                          + (IF throws THEN 1 ELSE 0),
                             !.requested =
                                [i \in FeedIds |->
                                   called.requested[i]
                                     + (IF i \in ids THEN 1 ELSE 0)]]]
              /\ IF throws
                 THEN UNCHANGED <<items, runs, completedOrder>>
                 ELSE /\ items' = InsertOrIgnore(valid)
                      /\ runs' = [runs EXCEPT ![id] = row]
                      /\ completedOrder' = IF isDone THEN StampCompleted(id)
                                           ELSE ClearCompleted(id)
    /\ UNCHANGED <<remoteMax, queue, pc, loc, resp, hn>>

WalkNext == WalkFeedGrow \/ WalkIncremental \/ WalkInitial \/ WalkChunk

WalkSpec == WalkInit /\ [][WalkNext]_vars

(* ------- keywords/extract-daily/route.ts: two overlapping requests ------ *)
\* The extract-daily requests in flight together, and the requests begun
\* in one behaviour.
Requests == 1..2
MaxExtractCalls == 2

\* The lists of display keywords of one day in which no keyword shows
\* twice.
DistinctLists ==
  {l \in AggregatedLists :
     \A i, j \in 1..Len(l) : i # j => l[i] # l[j]}

\* The records the keyword search finds while the two requests run: one
\* record ID, every time.
OverlapItems == {f \in FoundItems : f.id = 1}

\* The locals of a request that is not running.
IdleRequest ==
  [at |-> "idle", existingDateSet |-> {}, dates |-> {}, dateStr |-> NoDate,
   aggregated |-> <<>>, idx |-> 0]

\* totalDaysAppeared of a row, 0 for no row.
DaysCounted(row) == IF row = NoRow THEN 0 ELSE row.totalDaysAppeared

\* Both tables are empty, no request runs, today is the last of the days
\* that have items; added[d][k] is what the passes over day d have added
\* to totalDaysAppeared of keyword k.
OverlapInit ==
  /\ SyncAtRest
  /\ hn = NoCall
  /\ kw = [op |-> "overlap", today |-> MaxDay, calls |-> 0,
           daily |-> [d \in Days |-> {}],
           stats |-> [k \in Keywords |-> NoRow],
           added |-> [d \in Days |-> [k \in Keywords |-> 0]],
           req |-> [r \in Requests |-> IdleRequest]]

\* POST without ?force=true up to the loop over the days, by request r.
OverlapBegin(r) ==
  /\ kw.op = "overlap" /\ kw.req[r].at = "idle"
  /\ kw.calls < MaxExtractCalls
  /\ LET allDates == Days
         existingDateSet == DatesWithKeywords(kw.daily)
         dates == datesToProcess(allDates, existingDateSet, kw.today)
     IN  kw' = [kw EXCEPT
                  !.calls = kw.calls + 1,
                  !.req[r] = [at |-> IF dates = {} THEN "idle" ELSE "days",
                              existingDateSet |->
                                IF dates = {} THEN {} ELSE existingDateSet,
                              dates |-> dates, dateStr |-> NoDate,
                              aggregated |-> <<>>, idx |-> 0]]
  /\ UNCHANGED <<syncVars, hn>>

\* One pass of request r's loop over the days up to the loop over the
\* aggregated keywords: the day is skipped, or today's rows are deleted on
\* re-processing and the day's rows are inserted (onConflictDoNothing
\* keeps the rows the other request inserted).
OverlapDay(r) ==
  /\ kw.op = "overlap" /\ kw.req[r].at = "days"
  /\ kw.req[r].dates # {}
  /\ LET dateStr == SetMin(kw.req[r].dates) IN
     \/ kw' = [kw EXCEPT !.req[r].dates = kw.req[r].dates \ {dateStr},
                         !.req[r].dateStr = NoDate]
     \/ \E aggregated \in DistinctLists \ {<<>>} :
          LET kept == IF dateStr = kw.today
                         /\ kw.today \in kw.req[r].existingDateSet
                      THEN {} ELSE kw.daily[dateStr]
          IN  kw' = [kw EXCEPT
                       !.req[r].at = "stats",
                       !.req[r].dateStr = dateStr,
                       !.req[r].aggregated = aggregated,
                       !.req[r].idx = 1,
                       !.daily[dateStr] =
                          kept \cup {aggregated[n] :
                                       n \in 1..Len(aggregated)}]
  /\ UNCHANGED <<syncVars, hn>>

\* One pass of request r's loop over the aggregated keywords: the upsert
\* of the keyword's keyword_stats row, one statement.
OverlapStats(r) ==
  /\ kw.op = "overlap" /\ kw.req[r].at = "stats"
  /\ LET q == kw.req[r]
         keyword == q.aggregated[q.idx]
         last == q.idx = Len(q.aggregated)
         after == [q EXCEPT
                     !.idx = IF last THEN 0 ELSE q.idx + 1,
                     !.aggregated = IF last THEN <<>> ELSE q.aggregated,
                     !.at = IF last THEN "days" ELSE "stats",
                     !.dates = IF last THEN q.dates \ {q.dateStr}
                               ELSE q.dates]
     IN
     \/ kw' = [kw EXCEPT !.req[r] = after]
     \/ \E matchingItem \in OverlapItems :
          LET row == kw.stats[keyword]
              new == IF q.dateStr = kw.today
                        /\ kw.today \in q.existingDateSet
                     THEN upsertReprocess(row, matchingItem)
                     ELSE upsertNewDay(row, matchingItem)
          IN  kw' = [kw EXCEPT
                       !.req[r] = after,
                       !.stats[keyword] = new,
                       !.added[q.dateStr][keyword] =
                          @ + DaysCounted(new) - DaysCounted(row)]
  /\ UNCHANGED <<syncVars, hn>>

\* Request r's loop over the days is over: the response.
OverlapEnd(r) ==
  /\ kw.op = "overlap" /\ kw.req[r].at = "days"
  /\ kw.req[r].dates = {}
  /\ kw' = [kw EXCEPT !.req[r] = IdleRequest]
  /\ UNCHANGED <<syncVars, hn>>

OverlapNext ==
  \E r \in Requests :
    OverlapBegin(r) \/ OverlapDay(r) \/ OverlapStats(r) \/ OverlapEnd(r)

OverlapSpec == OverlapInit /\ [][OverlapNext]_vars

(* ------------------------------ properties ----------------------------- *)
\* C1: over any sequence of processChunk calls (and every other step), the
\* lastFetchedItem of a run never increases and never drops below its
\* targetEndItem.
CursorMonotone ==
  [][\A i \in RunIds :
       /\ runs'[i].lastFetchedItem <= runs[i].lastFetchedItem
       /\ runs'[i].lastFetchedItem >= runs'[i].targetEndItem]_vars

\* A chunked run whose cursor has moved and has not reached the target yet.
CursorAdvanced ==
  \E i \in RunIds :
    /\ runs[i].totalItems > 0
    /\ runs[i].status = "running"
    /\ runs[i].targetEndItem < runs[i].lastFetchedItem
    /\ runs[i].lastFetchedItem < runs[i].startMaxItem

\* Both workers have returned from a successful chunk call on the same run.
BothChunksReturned ==
  /\ pc[1] = "idle" /\ pc[2] = "idle"
  /\ resp[1].op = "chunk" /\ resp[2].op = "chunk"
  /\ resp[1].success /\ resp[2].success
  /\ resp[1].syncRunId = resp[2].syncRunId

\* The answers `first` and `second` and the stored row are what two chunk
\* calls executed one after the other, in this order, leave behind.
SerialOrder(first, second, run) ==
  /\ first.done =>
       /\ second.done
       /\ second.lastFetchedItem = first.lastFetchedItem
       /\ second.itemsFetched = first.itemsFetched
  /\ ~first.done =>
       /\ second.lastFetchedItem < first.lastFetchedItem
       /\ second.itemsFetched >= first.itemsFetched
  /\ run.lastFetchedItem = second.lastFetchedItem
  /\ run.itemsFetched = second.itemsFetched
  /\ run.status = IF second.done THEN "completed" ELSE "running"

\* C2: once two processChunk calls on the same run have both committed, the
\* stored lastFetchedItem, itemsFetched and status are those of executing
\* the two calls one after the other in some order.
ChunksSerializable ==
  BothChunksReturned =>
    \/ SerialOrder(resp[1], resp[2], runs[resp[1].syncRunId])
    \/ SerialOrder(resp[2], resp[1], runs[resp[1].syncRunId])

\* C3: at every moment at most one sync run is running or paused.
AtMostOneActive == Cardinality(ActiveRuns) <= 1

\* A start request (incremental or initial) has returned.
StartReturned ==
  /\ pc[1] = "idle"
  /\ resp[1].op \in {"incremental", "initial"}

\* The cron trigger has finished its start step and processed no chunk yet.
CronStarted == pc[1] = "cron_loop" /\ loc[1].sync = NoSync

CursorInRange ==
  \A i \in RunIds :
    /\ runs[i].targetEndItem <= runs[i].lastFetchedItem
    /\ runs[i].lastFetchedItem <= runs[i].startMaxItem

\* A run that was created, advanced by a chunk and paused.
PausedMidRun ==
  \E i \in RunIds :
    /\ runs[i].status = "paused"
    /\ runs[i].targetEndItem < runs[i].lastFetchedItem
    /\ runs[i].lastFetchedItem < runs[i].startMaxItem

\* The edges of the state machine of a sync run.
AllowedEdges ==
  {<<"running", "paused">>, <<"paused", "running">>,
   <<"running", "completed">>, <<"running", "failed">>}

\* C6: every change of the status of a run follows an edge of the state
\* machine; a completed run stays completed.
StatusFollowsEdges ==
  [][\A i \in RunIds :
       \/ runs'[i].status = runs[i].status
       \/ <<runs[i].status, runs'[i].status>> \in AllowedEdges]_vars

\* C7: a processChunk call increases itemsFetched by the number of rows
\* the call added to the items table.
ItemsFetchedCountsRows ==
  [][\A w \in Workers :
       (pc[w] = "chunk_commit" /\ pc'[w] # "chunk_commit") =>
         runs'[loc[w].run].itemsFetched
           = runs[loc[w].run].itemsFetched + loc[w].added]_vars

\* C8: when the insert of a chunk throws, the call answers with a failure
\* and leaves the cursor and itemsFetched of the run as they were before
\* the call, with status running, so the next call requests the same IDs.
FailureKeepsCursor ==
  [][\A w \in Workers :
       (pc[w] = "chunk_insert" /\ resp'[w].error = "threw") =>
         LET id == loc[w].run
             sync == loc[w].sync
             size == ChunkSize(loc[w].kind) IN
         /\ ~resp'[w].success
         /\ runs'[id].lastFetchedItem = sync.lastFetchedItem
         /\ runs'[id].itemsFetched = sync.itemsFetched
         /\ runs'[id].status = "running"
         /\ IdsToFetch(runs'[id], size) = IdsToFetch(sync, size)]_vars

\* A chunk call on a run that a chunk had advanced has failed.
ChunkFailed ==
  /\ pc[1] = "idle"
  /\ resp[1].op = "chunk"
  /\ resp[1].error = "threw"
  /\ \E i \in RunIds : /\ runs[i].status = "running"
                       /\ runs[i].lastFetchedItem < runs[i].startMaxItem

ProgressInBounds ==
  /\ \A i \in RunIds :
       /\ StatusProgress(runs[i]) \in 0..100
       /\ runs[i].totalItems = 0 => StatusProgress(runs[i]) = 100
  /\ \A w \in Workers :
       (resp[w].op = "chunk" /\ resp[w].success) => resp[w].progress \in 0..100

\* C11: from a new run with startMaxItem 1000, targetEndItem 400 and
\* totalItems 600, with chunks of 500, the first processChunk leaves the
\* cursor at 500 with itemsFetched <= 500 and done = false; the second
\* leaves the cursor at 400 with done = true and status completed.
ScenarioTwoChunks ==
  [][(runs # <<>> /\ runs' # runs) =>
       /\ runs[1].lastFetchedItem = 1000 =>
            /\ runs'[1].lastFetchedItem = 500
            /\ runs'[1].itemsFetched <= 500
            /\ runs'[1].status = "running"
            /\ ~resp'[1].done
       /\ runs[1].lastFetchedItem = 500 =>
            /\ runs'[1].lastFetchedItem = 400
            /\ runs'[1].status = "completed"
            /\ resp'[1].done
       /\ runs[1].lastFetchedItem \in {1000, 500}]_vars

\* The second chunk of the run of 600 IDs has committed, and the two
\* chunks were handed a record for every ID they requested.
ScenarioDone ==
  /\ runs # <<>>
  /\ runs[1].status = "completed"
  /\ runs[1].lastFetchedItem = 400
  /\ runs[1].itemsFetched = 600
  /\ resp[1].done

\* Worker w starts a POST /api/sync/chunk call on run id in this step.
RouteCallOn(w, id) ==
  /\ pc[w] = "idle"
  /\ \/ resp'[w].op = "chunk" /\ resp'[w].syncRunId = id /\ resp'[w] # resp[w]
     \/ loc'[w].kind = "route" /\ loc'[w].run = id

\* The processChunk of the cron trigger loads its run in this step.
CronCallOn(w, id) ==
  /\ pc[w] = "cron_loop" /\ ~loc[w].done /\ loc[w].run = id
  /\ pc'[w] # "idle"
  /\ loc'[w] # loc[w]

\* C12: processChunk called on a completed run answers done = true at once
\* and changes no field of the run, no item and no user.
CompletedRunUntouched ==
  [][\A w \in Workers, id \in RunIds :
       runs[id].status = "completed" =>
         /\ RouteCallOn(w, id) =>
              /\ pc'[w] = "idle"
              /\ resp'[w].success /\ resp'[w].done
              /\ <<runs, completedOrder, items, users>>' =
                   <<runs, completedOrder, items, users>>
         /\ CronCallOn(w, id) =>
              /\ pc'[w] = "cron_loop"
              /\ loc'[w].done
              /\ <<runs, completedOrder, items, users>>' =
                   <<runs, completedOrder, items, users>>]_vars

\* The processChunk of the cron trigger has loaded a run that a client
\* completed before the trigger's first chunk, and a later call of the
\* client on that run has answered too.
LateCallsAnswered ==
  /\ pc[1] = "cron_loop" /\ loc[1].done /\ loc[1].sync = NoSync
  /\ pc[2] = "idle" /\ resp[2].op = "chunk" /\ resp[2].done
  /\ resp[2].syncRunId = loc[1].run

\* Worker w returns from DELETE /api/sync in this step.
PauseReturns(w) ==
  /\ pc[w] \in {"idle", "pause_write"}
  /\ pc'[w] = "idle"
  /\ resp'[w].op = "pause"
  /\ pc[w] = "pause_write" \/ resp'[w] # resp[w]

\* C13: pause sets a running run to paused and leaves its other fields
\* alone; without a running run it changes no run and answers a failure;
\* a step that resumes a paused run changes its status only.
PauseKeepsCursor ==
  [][/\ \A w \in Workers :
          PauseReturns(w) =>
            IF resp'[w].success
            THEN /\ pc[w] = "pause_write"
                 /\ runs[loc[w].run].status = "running"
                 /\ runs' = [runs EXCEPT ![loc[w].run].status = "paused"]
            ELSE /\ runs' = runs
                 /\ \A i \in RunIds : runs[i].status # "running"
     /\ \A i \in RunIds :
          (runs[i].status = "paused" /\ runs'[i].status = "running") =>
            runs'[i] = [runs[i] EXCEPT !.status = "running"]]_vars

\* A run that a chunk had advanced was paused by one client and then
\* resumed by a start request of the other.
ResumedAfterPause ==
  /\ pc[1] = "idle" /\ pc[2] = "idle"
  /\ resp[2].op = "pause" /\ resp[2].success
  /\ resp[1].op = "incremental" /\ resp[1].resumed
  /\ resp[1].syncRunId = resp[2].syncRunId
  /\ runs[resp[1].syncRunId].status = "running"
  /\ runs[resp[1].syncRunId].lastFetchedItem
       < runs[resp[1].syncRunId].startMaxItem

\* The timestamps of the feed do not decrease with the ID, except for
\* inversions displaced by fewer IDs than the margin.
NearlyMonotone(feed) ==
  \A i, j \in DOMAIN feed :
    (i < j /\ feed[i] # NoTime /\ feed[j] # NoTime /\ feed[i] > feed[j])
      => j - i < LocateMargin

\* The result is max(minItem, b - margin) for an ID b whose record has a
\* timestamp <= t, or for b = minItem.
ResultFromMatch ==
  \E b \in 1..LocateMaxItem :
    /\ hn.result = Max(1, b - LocateMargin)
    /\ b = 1 \/ (hn.feed[b] # NoTime /\ hn.feed[b] <= hn.targetTimestamp)

FetchNeverThrows ==
  hn.op = "fetchHNItem" =>
    /\ ~hn.result.threw
    /\ hn.outcome # "ok" => hn.result.value = Null
    /\ hn.result.value # Null =>
         hn.outcome = "ok" /\ hn.result.value = hn.body

\* A fetch whose body did not parse has returned null.
FetchSwallowedError ==
  /\ hn.op = "fetchHNItem"
  /\ hn.outcome = "unparseable"
  /\ hn.body # Null
  /\ hn.result = [threw |-> FALSE, value |-> Null]

\* C16: fetchItemsBatch returns a list as long as ids whose i-th element
\* is what the fetch of ids[i] resolved to, and never has more than
\* `concurrency` fetches outstanding.
BatchOrderedAndBounded ==
  hn.op = "fetchItemsBatch" =>
    /\ Cardinality(hn.outstanding) <= hn.concurrency
    /\ Len(hn.results) = Len(hn.ids)
    /\ hn.at = "done" =>
         \A k \in 1..Len(hn.ids) :
           /\ hn.results[k] = hn.settled[k]
           /\ hn.results[k] # Null => hn.results[k].id = hn.ids[k]

\* A batch longer than `concurrency`, with two different IDs, has returned
\* a record for its last ID and null for its first.
BatchReturnedSeveralWindows ==
  /\ hn.op = "fetchItemsBatch" /\ hn.at = "done"
  /\ Len(hn.ids) > hn.concurrency /\ hn.concurrency > 1
  /\ hn.ids[1] # hn.ids[Len(hn.ids)]
  /\ hn.results[1] = Null
  /\ hn.results[Len(hn.ids)] # Null

\* C17: when the keyword_stats row of a keyword that one group of the day
\* shows is updated with a found record while the day is processed for the
\* first time (the day had no daily_keywords rows when its processing
\* began), the row takes the older firstSeenTime, the newer lastItemTime
\* with its item, and one more in totalDaysAppeared.
NewDayCounted ==
  [][\A keyword \in Keywords :
       kw.op = "extract" /\ kw.at = "stats"
       /\ kw.aggregated[kw.idx] = keyword
       /\ (\A n \in 1..Len(kw.aggregated) :
             n # kw.idx => kw.aggregated[n] # keyword)
       /\ kw.stats[keyword] # NoRow
       /\ kw'.stats[keyword] # kw.stats[keyword]
       /\ ~kw.hadKeywords
       => \E f \in FoundItems :
            kw'.stats[keyword] =
              [firstSeenTime |-> Min(kw.stats[keyword].firstSeenTime, f.time),
               lastItemTime |-> Max(kw.stats[keyword].lastItemTime, f.time),
               lastItemId |-> IF f.time > kw.stats[keyword].lastItemTime
                              THEN f.id ELSE kw.stats[keyword].lastItemId,
               totalDaysAppeared |->
                 kw.stats[keyword].totalDaysAppeared + 1]]_vars

\* C18: while today is re-processed (it had daily_keywords rows when its
\* processing began), the upsert of an existing keyword_stats row with a
\* found record sets lastItemTime and lastItemId to the record's and
\* leaves firstSeenTime and totalDaysAppeared as they were; no other row
\* changes.
ReprocessKeepsCount ==
  [][\A keyword \in Keywords :
       kw.op = "extract" /\ kw.at = "stats"
       /\ kw.aggregated[kw.idx] = keyword
       /\ kw.stats[keyword] # NoRow
       /\ kw.hadKeywords
       => /\ \A other \in Keywords \ {keyword} :
               kw'.stats[other] = kw.stats[other]
          /\ \/ kw'.stats[keyword] = kw.stats[keyword]
             \/ \E item \in FoundItems :
                  kw'.stats[keyword] =
                    [firstSeenTime |-> kw.stats[keyword].firstSeenTime,
                     lastItemTime |-> item.time,
                     lastItemId |-> item.id,
                     totalDaysAppeared |->
                       kw.stats[keyword].totalDaysAppeared]]_vars

\* Today, counted before, has just been re-processed: a row first seen at
\* 1 and counted on two days now shows a record of time 3.
ReprocessedToday ==
  /\ kw.op = "extract" /\ kw.at = "days"
  /\ kw.hadKeywords /\ kw.dateStr = 2 /\ kw.today = 2
  /\ "ai" \in kw.daily[2]
  /\ kw.stats["ai"] = [firstSeenTime |-> 1, lastItemTime |-> 3,
                       lastItemId |-> 2, totalDaysAppeared |-> 2]

\* The phrases of the call that were not skipped.
Grouped == (1..Len(kw.keywords)) \ kw.skipped

\* The parent override of the n-th phrase of the call, NoParent if none.
ParentOf(n) == getParentKeyword(kw.variantCache, kw.keywords[n].keyword)

\* C19: aggregateKeywords puts every phrase with a parent override in the
\* group of its parent keyword, and every group that holds such a phrase
\* shows the parent keyword.
OverrideAlwaysShown ==
  kw.op = "aggregateKeywords" /\ kw.at = "done" =>
    /\ \A n \in Grouped :
         ParentOf(n) # NoParent =>
           \E p \in 1..Len(kw.result) :
             /\ kw.result[p].stem = ParentOf(n)
             /\ \E v \in 1..Len(kw.result[p].variants) :
                  kw.result[p].variants[v] = kw.keywords[n].keyword
    /\ \A p \in 1..Len(kw.result) :
         \A v \in 1..Len(kw.result[p].variants) :
           LET parentKeyword == getParentKeyword(kw.variantCache,
                                                 kw.result[p].variants[v])
           IN  parentKeyword # NoParent =>
                 kw.result[p].keyword = parentKeyword

\* The group key the n-th phrase of the call resolves to.
ResolvedKey(n) ==
  IF ParentOf(n) # NoParent THEN ParentOf(n) ELSE kw.keywords[n].stemmed

\* C20: aggregateKeywords skips a phrase exactly when the group key it
\* resolves to is blacklisted under the default stems and the user's
\* overrides.
SkippedIffEffectivelyBlacklisted ==
  kw.op = "aggregateKeywords" =>
    \A n \in 1..(kw.n - 1) :
      n \in kw.skipped <=>
        isBlacklistedWithOverrides(kw.overrideCache, ResolvedKey(n))

\* C21: the rows stored for a day carry the ranks 1..N, each once, and a
\* row of a smaller rank never has a larger mean score.
RanksDenseByScore ==
  kw.op = "aggregateKeywords" /\ kw.at = "stored" =>
    /\ {r.rank : r \in kw.rows} = 1..Cardinality(kw.rows)
    /\ \A r1, r2 \in kw.rows :
         r1.rank < r2.rank => ~MeanLess(r2.score, r1.score)

\* C22: no more than the top N groups of a day are stored.
StoredWithinTopN ==
  kw.op = "aggregateKeywords" /\ kw.at = "stored" =>
    Cardinality(kw.rows) <= TopN

StoredParent(table, keyword) ==
  IF \E row \in table : row.variantStem = stemKeyword(keyword)
  THEN (CHOOSE row \in table :
          row.variantStem = stemKeyword(keyword)).parentKeyword
  ELSE NoParent

\* C24: the getParentKeyword lookup that follows a successful create or
\* delete of the variants endpoint returns what the table holds after the
\* write.
LookupAfterWriteIsCurrent ==
  kw.op = "variants" /\ kw.last.kind = "lookup"
  /\ kw.last.after.kind \in {"create", "delete"}
  /\ kw.last.after.wrote
    => kw.last.result = StoredParent(kw.table, kw.last.keyword)

\* The lookup after the creation of rust <- rustlang has returned rust.
LookedUpNewOverride ==
  /\ kw.op = "variants" /\ kw.last.kind = "lookup"
  /\ kw.last.keyword = "rustlang" /\ kw.last.result = "rust"
  /\ kw.last.after.kind = "create" /\ kw.last.after.wrote
  /\ kw.last.after.variantKeyword = "rustlang"

\* C26: no keyword is the variant of one override and the parent of
\* another.
NoNestedVariants ==
  kw.op = "variants" =>
    \A r1, r2 \in kw.table : r1.variantKeyword # r2.parentKeyword

\* C25: the isBlacklistedWithOverrides lookup that follows a successful
\* create, update or delete of the blacklist endpoint answers by the table
\* as the write left it.
BlacklistLookupIsCurrent ==
  kw.op = "blacklist" /\ kw.last.kind = "lookup"
  /\ kw.last.after.kind \in {"post", "delete"}
  /\ kw.last.after.success
    => kw.last.result =
         isBlacklistedWithOverrides(kw.table, stemKeyword(kw.last.keyword))

\* The rank of a keyword on a date as a JavaScript value, null without a
\* row.
RankOrNull(date, keyword) ==
  IF keyword \in DOMAIN kw.daily[date] THEN Num(kw.daily[date][keyword])
  ELSE Null

\* The trend of a change of rank.
TrendOfChange(rankChange) ==
  IF rankChange > 2 THEN "up" ELSE IF rankChange < -2 THEN "down"
  ELSE "stable"

\* C27: every keyword of every date of the trends output has as
\* previousRank its rank on the nearest earlier date with rows, null if it
\* has none there; it is new when previousRank is null, and otherwise
\* rankChange is previousRank - currentRank and the trend is up above 2,
\* down below -2 and stable in between.
TrendsFollowPreviousDay ==
  kw.op = "trends" /\ kw.response.status = 200 =>
    \A i \in 1..Len(kw.response.dailyTrends) :
      LET day == kw.response.dailyTrends[i]
          earlier == {d \in DatesWithRows(kw.daily) : d < day.date}
      IN  \A p \in 1..Len(day.keywords) :
            LET entry == day.keywords[p]
                expected == IF earlier = {} THEN Null
                            ELSE RankOrNull(SetMax(earlier), entry.keyword)
            IN  /\ entry.currentRank = kw.daily[day.date][entry.keyword]
                /\ entry.previousRank = expected
                /\ IF expected = Null
                   THEN entry.trend = "new" /\ entry.rankChange = Null
                   ELSE /\ entry.rankChange =
                             Num(expected.num - entry.currentRank)
                        /\ entry.trend =
                             TrendOfChange(expected.num - entry.currentRank)

\* The first and the latest date with rows.
FirstDate == SetMin(DatesWithRows(kw.daily))
LatestDate == SetMax(DatesWithRows(kw.daily))

\* The weekly change of a keyword of the latest date that has a row on the
\* first date.
ChangeOf(keyword) ==
  kw.daily[FirstDate][keyword] - kw.daily[LatestDate][keyword]

\* The keywords of the latest date that rose, fell, or are new since the
\* first date.
Gainers ==
  {k \in DOMAIN kw.daily[LatestDate] \cap DOMAIN kw.daily[FirstDate] :
     ChangeOf(k) > 0}
Losers ==
  {k \in DOMAIN kw.daily[LatestDate] \cap DOMAIN kw.daily[FirstDate] :
     ChangeOf(k) < 0}

\* C28: every keyword of the latest date has as weeklyChange its rank on
\* the first date minus its rank now and is new exactly when it has no
\* row on the first date; topGainers are the largest rises, largest
\* first, topLosers the largest falls, largest fall first, newThisWeek new
\* keywords only, each list of at most MoversCap entries.
MoversFollowFirstDay ==
  kw.op = "trends" /\ kw.response.status = 200 =>
    /\ \A p \in 1..Len(kw.weeklyMovers) :
         LET m == kw.weeklyMovers[p] IN
         /\ m.isNew <=> m.keyword \notin DOMAIN kw.daily[FirstDate]
         /\ m.weeklyChange = IF m.keyword \in DOMAIN kw.daily[FirstDate]
                             THEN Num(ChangeOf(m.keyword)) ELSE Null
    /\ LET g == kw.response.topGainers IN
       /\ Len(g) = Min(MoversCap, Cardinality(Gainers))
       /\ \A p \in 1..Len(g) :
            /\ g[p].keyword \in Gainers
            /\ g[p].weeklyChange = Num(ChangeOf(g[p].keyword))
            /\ \A q \in 1..(p - 1) : g[q].keyword # g[p].keyword
            /\ \A q \in 1..(p - 1) :
                 ChangeOf(g[q].keyword) >= ChangeOf(g[p].keyword)
            /\ \A k \in Gainers \ {g[q].keyword : q \in 1..Len(g)} :
                 ChangeOf(k) <= ChangeOf(g[p].keyword)
    /\ LET l == kw.response.topLosers IN
       /\ Len(l) = Min(MoversCap, Cardinality(Losers))
       /\ \A p \in 1..Len(l) :
            /\ l[p].keyword \in Losers
            /\ l[p].weeklyChange = Num(ChangeOf(l[p].keyword))
            /\ \A q \in 1..(p - 1) : l[q].keyword # l[p].keyword
            /\ \A q \in 1..(p - 1) :
                 ChangeOf(l[q].keyword) <= ChangeOf(l[p].keyword)
            /\ \A k \in Losers \ {l[q].keyword : q \in 1..Len(l)} :
                 ChangeOf(k) >= ChangeOf(l[p].keyword)
    /\ \A p \in 1..Len(kw.response.newThisWeek) :
         /\ kw.response.newThisWeek[p].isNew
         /\ kw.response.newThisWeek[p].keyword
              \notin DOMAIN kw.daily[FirstDate]

\* A pass of the loop over the days in which the keyword service failed.
OracleFailedStep ==
  kw.op = "extract" /\ kw.at = "days" /\ kw.failed # kw'.failed
  /\ kw'.failed = kw.failed \cup {SetMin(kw.dates)}

\* The start of an extraction that deletes nothing and has days to process.
NonForcedBeginStep ==
  kw.op = "extract" /\ kw.at = "idle" /\ kw'.at = "days"
  /\ kw'.daily = kw.daily /\ kw'.stats = kw.stats

\* A day on which the keyword service fails gets no rows and no statistics
\* and the loop goes on with the remaining days.
FailedDaySkipped ==
  OracleFailedStep =>
    /\ kw'.daily = kw.daily
    /\ kw'.stats = kw.stats
    /\ kw'.at = "days"
    /\ kw'.dates = kw.dates \ {SetMin(kw.dates)}

QueueRecords(id) == Cardinality({n \in 1..Len(queue) : queue[n] = id})

\* C30: a cron invocation that answers completed has left a queue record
\* for its run, and no run has more than one queue record, also when two
\* cron invocations overlap on the run.
CompletedRunQueuedOnce ==
  /\ \A w \in Workers :
       resp[w].op = "cron" /\ resp[w].done =>
         QueueRecords(resp[w].syncRunId) >= 1
  /\ \A id \in RunIds : QueueRecords(id) <= 1

\* The status and retry count of record id change as process-queue changes
\* them: picked up, completed, or sent back to pending for one more try.
QueueStep(id) ==
  LET old == kw.records[id]
      new == kw'.records[id]
  IN  old # new =>
        \/ /\ old.status \in {"pending", "failed"}
           /\ new = [old EXCEPT !.status = "processing"]
        \/ /\ old.status = "processing"
           /\ new = [old EXCEPT !.status = "completed"]
        \/ /\ old.status = "processing"
           /\ new = [old EXCEPT !.status = "pending",
                                !.retryCount = old.retryCount + 1]

AuthorsStoredAtInsert ==
  \A w \in Workers :
    pc[w] = "chunk_insert" => AuthorsStored(loc[w].valid)

\* ceil((startMaxItem - targetEndItem) / size) + 1 for the smallest chunk
\* size used on run id.
WalkBound(id) ==
  LET size == SetMin(kw.log[id].sizes)
      span == runs[id].startMaxItem - runs[id].targetEndItem
  IN  (span + size - 1) \div size + 1

\* The window of the processChunk call that this step makes on run id.
WalkWindow(id) ==
  {i \in FeedIds : kw'.log[id].requested[i] # kw.log[id].requested[i]}

\* C33: a call whose insert does not break the author foreign key moves the
\* cursor to the smallest ID it requested, whatever records of its window
\* the feed returned; a run on which no call has thrown is completed after
\* at most ceil((startMaxItem - targetEndItem) / CHUNK_SIZE) + 1 calls.
MissingRecordsNeverStop ==
  /\ [][\A id \in RunIds :
          (WalkWindow(id) # {} /\ kw'.log[id].throws = kw.log[id].throws) =>
            runs'[id].lastFetchedItem = SetMin(WalkWindow(id))]_vars
  /\ [](\A id \in RunIds :
          (kw.log[id].throws = 0 /\ kw.log[id].calls > 0) =>
            /\ kw.log[id].calls <= WalkBound(id)
            /\ kw.log[id].calls = WalkBound(id) =>
                 runs[id].status = "completed")

\* A run was completed in several calls that did not throw, and a record of
\* its window is not stored.
CompletedOverMissing ==
  /\ kw.op = "walk"
  /\ \E id \in RunIds :
       /\ runs[id].status = "completed"
       /\ kw.log[id].throws = 0 /\ kw.log[id].calls >= 2
       /\ \E i \in Ids : kw.log[id].requested[i] = 1 /\ items[i] = Absent

NextRunCoversGap ==
  \A r \in RunIds :
    (/\ r + 1 \in RunIds
     /\ kw.log[r].start = "incremental"
     /\ kw.log[r + 1].start = "incremental"
     /\ runs[r].status = "completed") =>
      /\ runs[r + 1].targetEndItem < runs[r].startMaxItem
      /\ \A i \in runs[r].startMaxItem..(runs[r + 1].startMaxItem - 1) :
           /\ runs[r + 1].targetEndItem <= i
           /\ runs[r + 1].status = "completed" =>
                kw.log[r + 1].requested[i] >= 1

\* Two incremental runs are completed, the feed grew between them and the
\* first stored the record right below its startMaxItem.
TwoIncrementalRunsDone ==
  /\ kw.op = "walk" /\ Len(runs) = 2
  /\ kw.log[1].start = "incremental" /\ kw.log[2].start = "incremental"
  /\ runs[1].status = "completed" /\ runs[2].status = "completed"
  /\ runs[2].startMaxItem > runs[1].startMaxItem
  /\ runs[2].targetEndItem = runs[1].startMaxItem - 1

\* C36: when a processChunk call commits on a run that a pause request set
\* to paused while the call was in flight, the run is paused after the
\* commit, unless the commit completes it.
PauseSurvivesCommit ==
  [][\A w \in Workers :
       (/\ pc[w] = "chunk_commit" /\ pc'[w] # "chunk_commit"
        /\ runs[loc[w].run].status = "paused") =>
         runs'[loc[w].run].status \in {"paused", "completed"}]_vars

\* The number of dates that have a daily_keywords row for keyword.
DatesShowing(keyword) == Cardinality({d \in Days : keyword \in kw.daily[d]})

\* C37: between extractions without force, the totalDaysAppeared of every
\* keyword_stats row is the number of dates that have a daily_keywords row
\* for the keyword.
DaysAppearedMatchesRows ==
  (kw.op = "extract" /\ kw.at = "idle") =>
    \A keyword \in Keywords :
      kw.stats[keyword] # NoRow =>
        kw.stats[keyword].totalDaysAppeared = DatesShowing(keyword)

\* C38: after an extraction with ?force=true in which the keyword service
\* failed for no day, the totalDaysAppeared of every keyword_stats row is
\* the number of processed days that kept the keyword, today included.
ForcedRunCountsEveryDay ==
  (kw.op = "extract" /\ kw.at = "idle" /\ kw.forceReextract
   /\ kw.failed = {}) =>
    \A keyword \in Keywords :
      kw.stats[keyword] # NoRow =>
        kw.stats[keyword].totalDaysAppeared = DatesShowing(keyword)

\* C39: whatever the interleaving of two extract-daily requests, the passes
\* over one calendar day add at most 1 to a keyword's totalDaysAppeared.
DayCountedOnce ==
  kw.op = "overlap" =>
    \A d \in Days : \A k \in Keywords : kw.added[d][k] <= 1

\* C40: over extractions without ?force=true on an items table that only
\* grows, a keyword's row is never removed, its lastItemTime never
\* decreases, its firstSeenTime never increases, and firstSeenTime <=
\* lastItemTime in every state.
StatsTimesMonotone ==
  /\ [][\A k \in Keywords :
          kw.stats[k] # NoRow
          => /\ kw'.stats[k] # NoRow
             /\ kw'.stats[k].lastItemTime >= kw.stats[k].lastItemTime
             /\ kw'.stats[k].firstSeenTime <= kw.stats[k].firstSeenTime]_vars
  /\ [](\A k \in Keywords :
          kw.stats[k] # NoRow
          => kw.stats[k].firstSeenTime <= kw.stats[k].lastItemTime)

\* "ai" was first found at 1, a new day and a re-processing of today have
\* updated its row since, and its most recent record is now of time 3.
StatsMovedForward ==
  /\ kw.op = "extract" /\ kw.at = "days"
  /\ kw.hadKeywords /\ kw.dateStr = 2 /\ kw.today = 2
  /\ "ai" \in kw.daily[1] /\ "ai" \in kw.daily[2]
  /\ kw.newest["ai"] = 3
  /\ kw.stats["ai"] # NoRow
  /\ kw.stats["ai"].firstSeenTime = 1
  /\ kw.stats["ai"].lastItemTime = 3
  /\ kw.stats["ai"].totalDaysAppeared = 2

====
